---- MODULE Spec2Model ----
(***************************************************************************)
(* Game state store of the snake-and-ladder game (GameService) and the     *)
(* GameState / Player / SnakeOrLadder records it works on, the roll        *)
(* sequence of GameMainComponent and the codec of StorageService.          *)
(*                                                                         *)
(* Encoding: player ids are 1..n in creation order (uuid strings in the    *)
(* code, only their distinctness matters); a null id, a null               *)
(* pendingMaxPoints and an undefined finishTime are written 0 (Null).      *)
(* Dates are only ever compared, so a finishTime is kept as its place      *)
(* 1..k in the order of the k finish stamps of the game.                   *)
(***************************************************************************)
EXTENDS Integers, Sequences, FiniteSets, TLC

VARIABLES
    state,      \* GameService.stateSubject.value: NoState or a GameState
    threw,      \* whether the last store call ended by throwing
    run,        \* history: <<roller, round>> after each nextTurn since the
                \* set of finished players last changed
    rolled,     \* history: ids whose turn was ended by a nextTurn since
                \* currentRound last changed
    comp,       \* GameMainComponent: its fields and the position of its
                \* roll sequence (onRollDice) between two awaits
    stored,     \* StorageService: isStorageAvailable and the localStorage
                \* item under STORAGE_KEY
    loaded,     \* outcome of the loadGameState call the last action made
    gen,        \* generateSnakesAndLadders: its locals between two attempts
    call        \* the last call of a factory or utility function: its name,
                \* arguments and outcome

vars == <<state, threw, run, rolled, comp, stored, loaded, gen, call>>

----------------------------------------------------------------------------
(* Bounds of the model *)

MaxPlayers == 3     \* games have 2..MaxPlayers players
MaxRound == 2       \* Spec: nextTurn is explored while currentRound < MaxRound
MaxTurnsRound == 3  \* SpecTurns: the same, with its own bound
MaxSteps == 6       \* SpecMove: steps arguments -MaxSteps..MaxSteps

(* Program constants *)

Null == 0
BoardEnd == 100
DefaultMaxPoints == 12
MinPlayers == 2

NoState == [null |-> TRUE]

\* An id no player has (movePlayer etc. with an unknown id)
UnknownId == MaxPlayers + 1

\* steps arguments of movePlayer explored in Spec
StepValues == {50}

\* A number argument that need not be an integer: the integer v, or the
\* number half way between v and v + 1
Num(v) == [whole |-> TRUE, v |-> v]
Half(v) == [whole |-> FALSE, v |-> v]

\* maxPoints arguments explored: 0 and 2.5 are invalid, 6 is valid
ConfigInputs == {Num(0), Half(2), Num(6)}

\* The game's hazard list: one entry of FIXED_MAP_CONFIG (l7)
ModelHazards ==
    << [id |-> "l7", type |-> "ladder", startPosition |-> 50, endPosition |-> 67] >>

Range(seq) == { seq[i] : i \in 1..Len(seq) }

----------------------------------------------------------------------------
(* Player and GameState factories *)

\* A factory returns the name of the error it throws, or no error and the
\* object it constructed
Failed(name) == [error |-> name]
Constructed(value) == [error |-> "", value |-> value]

\* A string is the sequence of its characters.  String.prototype.trim:
\* the string without its leading and trailing spaces
RECURSIVE TrimStart(_)
TrimStart(string) ==
    IF string # << >> /\ Head(string) = " " THEN TrimStart(Tail(string))
    ELSE string

RECURSIVE TrimEnd(_)
TrimEnd(string) ==
    IF string # << >> /\ string[Len(string)] = " "
    THEN TrimEnd(SubSeq(string, 1, Len(string) - 1))
    ELSE string

trim(string) == TrimEnd(TrimStart(string))

\* String.prototype.toLowerCase, on the letters explored
toLowerCase(string) ==
    [i \in 1..Len(string) |-> IF string[i] = "A" THEN "a" ELSE string[i]]

\* validatePlayerName(name): the condition under which it does not throw
validatePlayerName(name) == ~(name = << >> \/ Len(trim(name)) = 0)

\* Mutant: names that differ in case only are held to be different
checkDuplicatePlayerName_CaseSensitive(name, existingPlayers) ==
    LET normalizedName == trim(name)
        isDuplicate == \E i \in 1..Len(existingPlayers) :
                          trim(existingPlayers[i].name) = normalizedName
    IN  ~isDuplicate

\* checkDuplicatePlayerName(name, existingPlayers): the condition under which
\* it does not throw
checkDuplicatePlayerName(name, existingPlayers) ==
    LET normalizedName == toLowerCase(trim(name))
        isDuplicate == \E i \in 1..Len(existingPlayers) :
                          toLowerCase(trim(existingPlayers[i].name)) = normalizedName
    IN  ~isDuplicate

\* createPlayer(name, index, total, existingPlayers); the id is a fresh uuid,
\* written index + 1, and the color is left out
createPlayer(name, index, total, existingPlayers) ==
    IF ~validatePlayerName(name) THEN Failed("InvalidPlayerNameError")
    ELSE IF ~checkDuplicatePlayerName(name, existingPlayers)
        THEN Failed("DuplicatePlayerNameError")
    ELSE Constructed([ id |-> index + 1,
                       name |-> trim(name),
                       position |-> 0,
                       isFinished |-> FALSE,
                       finishTime |-> Null,
                       turnOrder |-> index ])

\* names.forEach((name, index) => ...) from index on, players created so far
RECURSIVE ForEachName(_, _, _)
ForEachName(names, index, players) ==
    IF index = Len(names) THEN Constructed(players)
    ELSE LET player == createPlayer(names[index + 1], index, Len(names), players)
         IN  IF player.error # "" THEN player
             ELSE ForEachName(names, index + 1, Append(players, player.value))

createPlayers(names) == ForEachName(names, 0, << >>)

\* n valid names: "a", "aa", ...
ModelNames(n) == [i \in 1..n |-> [k \in 1..i |-> "a"]]

\* The players of a game of n: createPlayers' output on n valid names, with
\* the fields the store reads (it passes the names on unread)
StorePlayers(n) ==
    LET players == createPlayers(ModelNames(n)).value
    IN  [ i \in 1..n |-> [ id |-> players[i].id,
                           position |-> players[i].position,
                           isFinished |-> players[i].isFinished,
                           finishTime |-> players[i].finishTime,
                           turnOrder |-> players[i].turnOrder ] ]

validatePlayerCount_AtLeastOne(count) == count >= 1

validatePlayerCount(count) == count >= MinPlayers

validatePosition(position) == ~(position < 0 \/ position > BoardEnd)

\* Array.prototype.includes
Includes(array, v) == \E i \in 1..Len(array) : array[i] = v

\* Array.prototype.sort((a, b) => a - b): ascending, equal values kept
RECURSIVE SortAscending(_)
SortAscending(array) ==
    IF array = << >> THEN << >>
    ELSE LET least == CHOOSE i \in 1..Len(array) :
                         \A j \in 1..Len(array) : array[i] <= array[j]
         IN  <<array[least]>> \o
             SortAscending([k \in 1..(Len(array) - 1) |->
                              IF k < least THEN array[k] ELSE array[k + 1]])

\* The default of the winningPositions parameter
DefaultWinningPositions == <<16>>

createInitialGameState(players, snakesAndLadders, winningPositions) ==
    LET finalWinningPositions ==
            IF Includes(winningPositions, 16) THEN winningPositions
            ELSE <<16>> \o winningPositions
    IN
    [ players |-> players,
      snakesAndLadders |-> snakesAndLadders,
      currentDiceRollerId |-> players[1].id,
      selectedTargetId |-> Null,
      lastDiceResult |-> Null,
      diceConfig |-> [maxPoints |-> DefaultMaxPoints, pendingMaxPoints |-> Null],
      currentRound |-> 1,
      turnsInCurrentRound |-> 0,
      isGameStarted |-> FALSE,
      isGameFinished |-> FALSE,
      showTokenForPlayerId |-> Null,
      winningPositions |-> SortAscending(finalWinningPositions) ]

----------------------------------------------------------------------------
(* Array helpers, as the code uses them *)

\* Array.prototype.findIndex(p => p.id === id), 0-based, -1 when absent
FindIndexById(players, id) ==
    IF \E i \in 1..Len(players) : players[i].id = id
    THEN (CHOOSE i \in 1..Len(players) :
            /\ players[i].id = id
            /\ \A j \in 1..(i - 1) : players[j].id # id) - 1
    ELSE -1

IsActive(p) == ~p.isFinished

\* state.players.filter(p => !p.isFinished)
ActivePlayers(players) == SelectSeq(players, IsActive)

RECURSIVE InsertByTurnOrder(_, _)
InsertByTurnOrder(sorted, p) ==
    IF sorted = << >> THEN << p >>
    ELSE IF sorted[Len(sorted)].turnOrder - p.turnOrder > 0
         THEN Append(InsertByTurnOrder(SubSeq(sorted, 1, Len(sorted) - 1), p),
                     sorted[Len(sorted)])
         ELSE Append(sorted, p)

RECURSIVE SortByTurnOrder(_)
\* [...activePlayers].sort((a, b) => a.turnOrder - b.turnOrder), stable
SortByTurnOrder(players) ==
    IF players = << >> THEN << >>
    ELSE InsertByTurnOrder(SortByTurnOrder(SubSeq(players, 1, Len(players) - 1)),
                           players[Len(players)])

Ok(s) == [ok |-> TRUE, state |-> s]
Throw(s) == [ok |-> FALSE, state |-> s]

----------------------------------------------------------------------------
(* GameService: queries (pure functions of the current state) *)

\* rollDice(): the values Math.floor(Math.random() * maxPoints) + 1 can take
RollDiceResults(s) == 1..s.diceConfig.maxPoints

\* Mutant: the last cell is not taken as a win
checkWinCondition_PastLastCell(s, playerId) ==
    IF s = NoState THEN FALSE
    ELSE LET idx == FindIndexById(s.players, playerId)
         IN  IF idx = -1 THEN FALSE ELSE s.players[idx + 1].position > BoardEnd

\* checkWinCondition(playerId)
checkWinCondition(s, playerId) ==
    IF s = NoState THEN FALSE
    ELSE LET idx == FindIndexById(s.players, playerId)
         IN  IF idx = -1 THEN FALSE ELSE s.players[idx + 1].position = BoardEnd

\* checkGameEnd()
checkGameEnd(s) ==
    IF s = NoState THEN FALSE
    ELSE IF Len(s.players) = 0 THEN FALSE
    ELSE \A i \in 1..Len(s.players) : s.players[i].isFinished

\* Number.isInteger
Number_isInteger(number) == number.whole

\* Mutant: a number that is no integer passes
validateMaxPoints_NoIntegerTest(maxPoints) == maxPoints.v >= 1

\* validateMaxPoints(maxPoints)
validateMaxPoints(maxPoints) == Number_isInteger(maxPoints) /\ maxPoints.v >= 1

----------------------------------------------------------------------------
(* GameService: the updater functions handed to updateState *)

\* Mutant: the overshoot test also refuses to land on the last cell
movePlayerUpdater_RefusesExactFinish(s, playerId, steps) ==
    LET playerIndex == FindIndexById(s.players, playerId)
    IN  IF playerIndex = -1 THEN Throw(s)
        ELSE LET player == s.players[playerIndex + 1]
                 newPosition == player.position + steps
                 finalPosition == IF newPosition >= BoardEnd
                                  THEN player.position ELSE newPosition
             IN  IF ~validatePosition(finalPosition) THEN Throw(s)
                 ELSE Ok([s EXCEPT !.players[playerIndex + 1].position = finalPosition])

\* Mutant: the move also rewrites the turnOrder of the moved player
movePlayerUpdater_RewritesTurnOrder(s, playerId, steps) ==
    LET playerIndex == FindIndexById(s.players, playerId)
    IN  IF playerIndex = -1 THEN Throw(s)
        ELSE LET player == s.players[playerIndex + 1]
                 newPosition == player.position + steps
                 finalPosition == IF newPosition > BoardEnd
                                  THEN player.position ELSE newPosition
             IN  IF ~validatePosition(finalPosition) THEN Throw(s)
                 ELSE Ok([s EXCEPT !.players[playerIndex + 1] =
                                       [@ EXCEPT !.position = finalPosition,
                                                 !.turnOrder = Len(s.players)]])

movePlayerUpdater(s, playerId, steps) ==
    LET playerIndex == FindIndexById(s.players, playerId)
    IN  IF playerIndex = -1 THEN Throw(s)
        ELSE LET player == s.players[playerIndex + 1]
                 newPosition == player.position + steps
                 finalPosition == IF newPosition > BoardEnd
                                  THEN player.position ELSE newPosition
             IN  IF ~validatePosition(finalPosition) THEN Throw(s)
                 ELSE Ok([s EXCEPT !.players[playerIndex + 1].position = finalPosition])

\* Mutant: the hazard leaves the player on its start
applySpecialMoveUpdater_ToStart(s, playerId, special) ==
    LET idx == FindIndexById(s.players, playerId)
    IN  IF idx = -1 THEN Throw(s)
        ELSE Ok([s EXCEPT !.players[idx + 1].position = special.startPosition])

\* Mutant: the hazard's end is added to the position instead of replacing it
applySpecialMoveUpdater_AddsEnd(s, playerId, special) ==
    LET playerIndex == FindIndexById(s.players, playerId)
    IN  IF playerIndex = -1 THEN Throw(s)
        ELSE Ok([s EXCEPT !.players[playerIndex + 1].position = @ + special.endPosition])

applySpecialMoveUpdater(s, playerId, special) ==
    LET playerIndex == FindIndexById(s.players, playerId)
    IN  IF playerIndex = -1 THEN Throw(s)
        ELSE Ok([s EXCEPT !.players[playerIndex + 1].position = special.endPosition])

\* Mutant: the round test is off by one (> instead of >=)
nextTurnUpdater_LateRound(s) ==
    LET activePlayers == ActivePlayers(s.players)
    IN  IF Len(activePlayers) = 0 THEN Ok(s)
        ELSE
          LET sortedActivePlayers == SortByTurnOrder(activePlayers)
              currentIndex == FindIndexById(sortedActivePlayers, s.currentDiceRollerId)
              nextIndex == (currentIndex + 1) % Len(sortedActivePlayers)
              nextRollerId == sortedActivePlayers[nextIndex + 1].id
              turns == s.turnsInCurrentRound + 1
              newRound == turns > Len(activePlayers)
              pending == s.diceConfig.pendingMaxPoints
          IN  Ok([s EXCEPT
                    !.currentDiceRollerId = nextRollerId,
                    !.selectedTargetId = Null,
                    !.lastDiceResult = Null,
                    !.turnsInCurrentRound = IF newRound THEN 0 ELSE turns,
                    !.currentRound = IF newRound THEN @ + 1 ELSE @,
                    !.diceConfig = IF newRound /\ pending # Null
                                   THEN [maxPoints |-> pending, pendingMaxPoints |-> Null]
                                   ELSE @])

nextTurnUpdater(s) ==
    LET activePlayers == ActivePlayers(s.players)
    IN  IF Len(activePlayers) = 0 THEN Ok(s)
        ELSE
          LET sortedActivePlayers == SortByTurnOrder(activePlayers)
              currentIndex == FindIndexById(sortedActivePlayers, s.currentDiceRollerId)
              nextIndex == (currentIndex + 1) % Len(sortedActivePlayers)
              nextRollerId == sortedActivePlayers[nextIndex + 1].id
              turns == s.turnsInCurrentRound + 1
              newRound == turns >= Len(activePlayers)
              pending == s.diceConfig.pendingMaxPoints
          IN  Ok([s EXCEPT
                    !.currentDiceRollerId = nextRollerId,
                    !.selectedTargetId = Null,
                    !.lastDiceResult = Null,
                    !.turnsInCurrentRound = IF newRound THEN 0 ELSE turns,
                    !.currentRound = IF newRound THEN @ + 1 ELSE @,
                    !.diceConfig = IF newRound /\ pending # Null
                                   THEN [maxPoints |-> pending, pendingMaxPoints |-> Null]
                                   ELSE @])

\* new Date() read while the players hold the given stamps: later than all
\* of them.  Stamp(players, i) then gives player i that reading and closes
\* the gap its previous stamp (if any) leaves, keeping every order.
StampedCount(players) ==
    Cardinality({ j \in 1..Len(players) : players[j].finishTime # Null })

Stamp(players, i) ==
    LET old == players[i].finishTime
        k == StampedCount(players)
    IN  [ j \in 1..Len(players) |->
            IF j = i
            THEN [players[j] EXCEPT !.isFinished = TRUE,
                                    !.finishTime = IF old = Null THEN k + 1 ELSE k]
            ELSE IF old # Null /\ players[j].finishTime > old
                 THEN [players[j] EXCEPT !.finishTime = @ - 1]
                 ELSE players[j] ]

\* Mutant: the position test is missing
markPlayerFinishedUpdater_NoPositionTest(s, playerId) ==
    LET playerIndex == FindIndexById(s.players, playerId)
    IN  IF playerIndex = -1 THEN Throw(s)
        ELSE Ok([s EXCEPT !.players = Stamp(s.players, playerIndex + 1)])

markPlayerFinishedUpdater(s, playerId) ==
    LET playerIndex == FindIndexById(s.players, playerId)
    IN  IF playerIndex = -1 THEN Throw(s)
        ELSE IF s.players[playerIndex + 1].position # BoardEnd THEN Throw(s)
        ELSE Ok([s EXCEPT !.players = Stamp(s.players, playerIndex + 1)])

\* Mutant: an id that belongs to no player is accepted
setSelectedTargetUpdater_AcceptsUnknown(s, targetId) ==
    LET idx == FindIndexById(s.players, targetId)
    IN  IF idx = -1 THEN Ok([s EXCEPT !.selectedTargetId = targetId])
        ELSE IF s.players[idx + 1].isFinished THEN Throw(s)
        ELSE Ok([s EXCEPT !.selectedTargetId = targetId])

\* Mutant: the isFinished test is missing
setSelectedTargetUpdater_AcceptsFinished(s, targetId) ==
    LET idx == FindIndexById(s.players, targetId)
    IN  IF idx = -1 THEN Throw(s)
        ELSE Ok([s EXCEPT !.selectedTargetId = targetId])

setSelectedTargetUpdater(s, targetId) ==
    LET idx == FindIndexById(s.players, targetId)
    IN  IF idx = -1 THEN Throw(s)
        ELSE IF s.players[idx + 1].isFinished THEN Throw(s)
        ELSE Ok([s EXCEPT !.selectedTargetId = targetId])

\* Mutant: the immediate change also drops the staged value
updateDiceConfigUpdater_DropsPending(s, maxPoints) ==
    Ok([s EXCEPT !.diceConfig = [maxPoints |-> maxPoints, pendingMaxPoints |-> Null]])

updateDiceConfigUpdater(s, maxPoints) ==
    Ok([s EXCEPT !.diceConfig.maxPoints = maxPoints])

\* Mutant: the staged value is also made the current one
updateDiceConfigPendingUpdater_AppliesNow(s, maxPoints) ==
    Ok([s EXCEPT !.diceConfig = [maxPoints |-> maxPoints, pendingMaxPoints |-> maxPoints]])

updateDiceConfigPendingUpdater(s, maxPoints) ==
    Ok([s EXCEPT !.diceConfig.pendingMaxPoints = maxPoints])

\* Mutant: the pending value is cleared without being copied into maxPoints
applyPendingDiceConfigUpdater_DropsValue(s) ==
    IF s.diceConfig.pendingMaxPoints # Null
    THEN Ok([s EXCEPT !.diceConfig.pendingMaxPoints = Null])
    ELSE Ok(s)

applyPendingDiceConfigUpdater(s) ==
    IF s.diceConfig.pendingMaxPoints # Null
    THEN Ok([s EXCEPT !.diceConfig = [maxPoints |-> s.diceConfig.pendingMaxPoints,
                                      pendingMaxPoints |-> Null]])
    ELSE Ok(s)

\* Mutant: the token of a player the game does not have can be shown
setShowTokenForPlayerUpdater_AcceptsUnknown(s, playerId) ==
    Ok([s EXCEPT !.showTokenForPlayerId = playerId])

setShowTokenForPlayerUpdater(s, playerId) ==
    IF playerId # Null /\ FindIndexById(s.players, playerId) = -1 THEN Throw(s)
    ELSE Ok([s EXCEPT !.showTokenForPlayerId = playerId])

----------------------------------------------------------------------------
(* GameService: the store operations *)

hist == <<run, rolled>>

app == <<comp, stored, loaded>>

lib == <<gen, call>>

\* generateSnakesAndLadders has not been called
NoGen == [pc |-> "none"]

\* No factory or utility function has been called
NoCall == [fn |-> "none"]

LibInit ==
    /\ gen = NoGen
    /\ call = NoCall

\* No localStorage item under STORAGE_KEY (getItem returns null)
NoRecord == [absent |-> TRUE]

\* The last action made no loadGameState call
NotLoaded == [kind |-> "none"]

\* checkSnakeOrLadder's null, and the component's currentLadder when no
\* ladder choice is open
NoSpecial == [id |-> "null", type |-> "null", startPosition |-> 0, endPosition |-> 0]

\* GameMainComponent's field initializers; finishRanks is the history of the
\* ranks shown by the finish modal, each with the player it was shown for
IdleComp ==
    [ pc |-> "idle",
      hasError |-> FALSE,
      isRolling |-> FALSE,
      isGameFinished |-> FALSE,
      selectedTarget |-> Null,
      targetPlayer |-> Null,
      fromPosition |-> 0,
      diceResult |-> Null,
      currentLadder |-> NoSpecial,
      ladderChoiceResolver |-> FALSE,
      ladderTimerInterval |-> FALSE,
      ladderCountdown |-> 0,
      finishModalTimeout |-> FALSE,
      finishPlayerRank |-> 0,
      finishRanks |-> << >>,
      diceRollCountdown |-> 0,
      diceRollTimeExpired |-> FALSE,
      diceRollTimerInterval |-> FALSE,
      inFlight |-> 0,
      log |-> << >> ]

\* The application before any game is played: component idle, storage
\* available and empty
AppInit ==
    /\ comp = IdleComp
    /\ stored = [isStorageAvailable |-> TRUE, item |-> NoRecord]
    /\ loaded = NotLoaded
    /\ LibInit

\* updateState(updater): throws on an uninitialized store or when the updater
\* throws, and publishes the updater's result otherwise
UpdateState(r) ==
    IF state = NoState
    THEN threw' = TRUE /\ state' = state
    ELSE state' = r.state /\ threw' = ~r.ok

\* initializeGame(players, snakesAndLadders, teams, winningPositions, ...) on
\* createPlayers' output
InitializeGameWith(n, winningPositions) ==
    IF validatePlayerCount(n)
    THEN /\ state' = createInitialGameState(StorePlayers(n), ModelHazards, winningPositions)
         /\ threw' = FALSE
    ELSE /\ threw' = TRUE
         /\ state' = state

\* initializeGame(players, snakesAndLadders): winningPositions takes its default
InitializeGame(n) == InitializeGameWith(n, DefaultWinningPositions)

\* reset()
Reset ==
    /\ state' = NoState
    /\ threw' = FALSE

MovePlayer(playerId, steps) ==
    UpdateState(movePlayerUpdater(state, playerId, steps))

ApplySpecialMove(playerId, special) ==
    UpdateState(applySpecialMoveUpdater(state, playerId, special))

NextTurn ==
    UpdateState(nextTurnUpdater(state))

MarkPlayerFinished(playerId) ==
    UpdateState(markPlayerFinishedUpdater(state, playerId))

SetSelectedTarget(targetId) ==
    UpdateState(setSelectedTargetUpdater(state, targetId))

UpdateDiceConfig(maxPoints) ==
    IF ~validateMaxPoints(maxPoints)
    THEN threw' = TRUE /\ state' = state
    ELSE UpdateState(updateDiceConfigUpdater(state, maxPoints.v))

UpdateDiceConfigPending(maxPoints) ==
    IF ~validateMaxPoints(maxPoints)
    THEN threw' = TRUE /\ state' = state
    ELSE UpdateState(updateDiceConfigPendingUpdater(state, maxPoints.v))

ApplyPendingDiceConfig ==
    UpdateState(applyPendingDiceConfigUpdater(state))

SetShowTokenForPlayer(playerId) ==
    UpdateState(setShowTokenForPlayerUpdater(state, playerId))

\* GameMainComponent.updateLastDiceResult(result): setState of the current
\* state with lastDiceResult replaced; nothing happens on an empty store
UpdateLastDiceResult(result) ==
    /\ state' = IF state = NoState THEN state
                ELSE [state EXCEPT !.lastDiceResult = result]
    /\ threw' = FALSE

----------------------------------------------------------------------------
(* Spec: every sequence of store calls *)

PlayerIdInputs == 1..UnknownId

\* setShowTokenForPlayer arguments explored: null, a player, no player
ShowTokenInputs == {Null, 1, UnknownId}

HazardInputs == IF state = NoState THEN Range(ModelHazards)
                ELSE Range(state.snakesAndLadders)

\* The exploration of nextTurn stops at round maxRound
RoundBelow(maxRound) == state # NoState => state.currentRound < maxRound

Init ==
    /\ state = NoState
    /\ threw = FALSE
    /\ run = << >>
    /\ rolled = {}
    /\ AppInit

Next ==
    \/ \E n \in 1..MaxPlayers : InitializeGame(n) /\ UNCHANGED <<hist, app, lib>>
    \/ Reset /\ UNCHANGED <<hist, app, lib>>
    \/ \E id \in PlayerIdInputs, steps \in StepValues :
          MovePlayer(id, steps) /\ UNCHANGED <<hist, app, lib>>
    \/ \E id \in PlayerIdInputs, special \in HazardInputs :
          ApplySpecialMove(id, special) /\ UNCHANGED <<hist, app, lib>>
    \/ RoundBelow(MaxRound) /\ NextTurn /\ UNCHANGED <<hist, app, lib>>
    \/ \E id \in PlayerIdInputs : MarkPlayerFinished(id) /\ UNCHANGED <<hist, app, lib>>
    \/ \E id \in PlayerIdInputs : SetSelectedTarget(id) /\ UNCHANGED <<hist, app, lib>>
    \/ \E v \in ConfigInputs : UpdateDiceConfig(v) /\ UNCHANGED <<hist, app, lib>>
    \/ \E v \in ConfigInputs : UpdateDiceConfigPending(v) /\ UNCHANGED <<hist, app, lib>>
    \/ ApplyPendingDiceConfig /\ UNCHANGED <<hist, app, lib>>
    \/ \E id \in ShowTokenInputs :
          SetShowTokenForPlayer(id) /\ UNCHANGED <<hist, app, lib>>

Spec == Init /\ [][Next]_vars

----------------------------------------------------------------------------
(* SpecTurns: the calls that decide whose turn it is and which round it is *)
(* (initializeGame, reset, movePlayer, markPlayerFinished, nextTurn), with *)
(* the history of the rotation recorded in run and rolled.  The other      *)
(* store calls write none of players, currentDiceRollerId, currentRound    *)
(* and turnsInCurrentRound.                                                *)

PlayerIds(s) ==
    IF s = NoState THEN {} ELSE { s.players[i].id : i \in 1..Len(s.players) }

FinishedIds(s) ==
    IF s = NoState THEN {}
    ELSE { s.players[i].id : i \in { j \in 1..Len(s.players) : s.players[j].isFinished } }

ActiveIds(s) ==
    IF s = NoState THEN {}
    ELSE { s.players[i].id : i \in { j \in 1..Len(s.players) : ~s.players[j].isFinished } }

Snap(s) == [roller |-> s.currentDiceRollerId, round |-> s.currentRound]

LastN(seq, k) ==
    IF Len(seq) <= k THEN seq ELSE SubSeq(seq, Len(seq) - k + 1, Len(seq))

\* A run of nextTurn calls starts in a state whose roller is not finished
RunFrom(s) ==
    IF s # NoState /\ s.currentDiceRollerId \in ActiveIds(s)
    THEN << Snap(s) >> ELSE << >>

TurnsInitializeGame(n) ==
    /\ InitializeGame(n)
    /\ run' = IF threw' THEN run ELSE RunFrom(state')
    /\ rolled' = IF threw' THEN rolled ELSE {}
    /\ UNCHANGED <<app, lib>>

TurnsReset ==
    /\ Reset
    /\ run' = << >>
    /\ rolled' = {}
    /\ UNCHANGED <<app, lib>>

TurnsMovePlayer(playerId, steps) ==
    /\ MovePlayer(playerId, steps)
    /\ UNCHANGED <<hist, app, lib>>

TurnsMarkPlayerFinished(playerId) ==
    /\ MarkPlayerFinished(playerId)
    /\ run' = IF FinishedIds(state') # FinishedIds(state) THEN RunFrom(state') ELSE run
    /\ UNCHANGED <<rolled, app, lib>>

TurnsNextTurn ==
    /\ RoundBelow(MaxTurnsRound)
    /\ NextTurn
    /\ IF threw' \/ ActiveIds(state) = {}
       THEN UNCHANGED <<hist, app, lib>>
       ELSE /\ run' = LastN(Append(run, Snap(state')), Len(state.players) + 1)
            /\ rolled' = IF state'.currentRound # state.currentRound
                         THEN {}
                         ELSE rolled \cup {state.currentDiceRollerId}
            /\ UNCHANGED <<app, lib>>

NextTurns ==
    \/ \E n \in 1..MaxPlayers : TurnsInitializeGame(n)
    \/ TurnsReset
    \/ \E id \in PlayerIdInputs, steps \in StepValues : TurnsMovePlayer(id, steps)
    \/ \E id \in PlayerIdInputs : TurnsMarkPlayerFinished(id)
    \/ TurnsNextTurn

SpecTurns == Init /\ [][NextTurns]_vars

----------------------------------------------------------------------------
(* Turn rotation and rounds *)

PlayerById(s, id) == s.players[FindIndexById(s.players, id) + 1]

\* The non-finished player that follows the roller in turn order, cyclically
LowestTurnOrder(s, ids) ==
    CHOOSE id \in ids :
        \A other \in ids : PlayerById(s, id).turnOrder <= PlayerById(s, other).turnOrder

NextInRotation(s) ==
    LET prev == PlayerById(s, s.currentDiceRollerId).turnOrder
        after == { id \in ActiveIds(s) : PlayerById(s, id).turnOrder > prev }
    IN  IF after # {} THEN LowestTurnOrder(s, after)
        ELSE LowestTurnOrder(s, ActiveIds(s))

\* A nextTurn call made while some player is not finished
NextTurnCall == state # NoState /\ ActiveIds(state) # {} /\ NextTurn

\* C1: with at least one non-finished player, nextTurn makes the roller the
\* non-finished player with the smallest turnOrder above the previous
\* roller's, or else the non-finished player with the smallest turnOrder,
\* also when the previous roller has been marked finished before the call.
C1_NextRollerFollowsPrevious ==
    [][NextTurnCall => state'.currentDiceRollerId = NextInRotation(state)]_vars

\* C2: from a state with n >= 1 non-finished players and a non-finished
\* roller, n nextTurn calls with nobody finishing in between bring the roller
\* back to the starting one, not before the n-th call, and raise currentRound
\* by exactly 1.
C2_RunReturnsAfterN ==
    state # NoState =>
        LET n == Cardinality(ActiveIds(state))
            L == Len(run)
        IN  (n >= 1 /\ L >= n + 1) =>
                /\ run[L] = Snap(state)
                /\ run[L].roller = run[L - n].roller
                /\ \A k \in 1..(n - 1) : run[L - k].roller # run[L - n].roller
                /\ run[L].round = run[L - n].round + 1

\* C2 witness: a three-player game in which one player has finished and the
\* two others have since completed a full run of nextTurn calls
C2_Witness ==
    /\ state # NoState
    /\ Len(state.players) = 3
    /\ Cardinality(ActiveIds(state)) = 2
    /\ Len(run) >= 3

\* C3: a nextTurn call increments currentRound and resets turnsInCurrentRound
\* exactly when every player who is non-finished at that call has been the
\* roller for one turn since the previous increment (the turn this call ends
\* included); no round ends while a non-finished player awaits its turn.
C3_RoundEndsWhenAllRolled ==
    [][NextTurnCall =>
         ( (ActiveIds(state) \subseteq rolled \cup {state.currentDiceRollerId})
           <=> ( /\ state'.currentRound = state.currentRound + 1
                 /\ state'.turnsInCurrentRound = 0 ) )]_vars

----------------------------------------------------------------------------
(* Dice configuration *)

DiceConfigCall ==
    \/ \E v \in ConfigInputs : UpdateDiceConfig(v)
    \/ \E v \in ConfigInputs : UpdateDiceConfigPending(v)
    \/ ApplyPendingDiceConfig

\* initializeGame builds a new game with new players (fresh uuids)
NewGameCall == \E n \in 1..MaxPlayers : InitializeGame(n)

\* A step from one state of a game to a state of the same game
SameGame == state # NoState /\ state' # NoState /\ ~NewGameCall

\* C4: after a valid updateDiceConfigPending(v), and with no other
\* configuration call, maxPoints (the range rollDice draws from) is unchanged
\* through every nextTurn that does not increment currentRound; the nextTurn
\* that increments currentRound sets maxPoints to v and pendingMaxPoints to
\* null in that same transition, so the next rollDice draws from 1..v.
C4_PendingTakesEffectAtRoundBoundary ==
    [][SameGame =>
        /\ \A v \in ConfigInputs :
              (validateMaxPoints(v) /\ UpdateDiceConfigPending(v)) =>
                  /\ state'.diceConfig.pendingMaxPoints = v.v
                  /\ state'.diceConfig.maxPoints = state.diceConfig.maxPoints
                  /\ RollDiceResults(state') = RollDiceResults(state)
        /\ (NextTurn /\ state.diceConfig.pendingMaxPoints # Null) =>
              IF state'.currentRound = state.currentRound
              THEN /\ state'.diceConfig = state.diceConfig
                   /\ RollDiceResults(state') = RollDiceResults(state)
              ELSE /\ state'.currentRound = state.currentRound + 1
                   /\ state'.diceConfig.maxPoints = state.diceConfig.pendingMaxPoints
                   /\ state'.diceConfig.pendingMaxPoints = Null
                   /\ RollDiceResults(state') = 1..state.diceConfig.pendingMaxPoints
        /\ ~(DiceConfigCall \/ NextTurn) => state'.diceConfig = state.diceConfig
    ]_vars

\* C4 witness: a second round has begun with the staged value 6 in force and
\* nothing pending, a new value not yet staged
C4_Witness ==
    /\ state # NoState
    /\ state.currentRound = 2
    /\ state.turnsInCurrentRound = 0
    /\ state.diceConfig = [maxPoints |-> 6, pendingMaxPoints |-> Null]
    /\ Len(state.players) = 2
    /\ ~threw

----------------------------------------------------------------------------
(* SpecMove: movePlayer from every position of the board, with every steps *)
(* argument in -MaxSteps..MaxSteps                                         *)

MoveInputs == (0 - MaxSteps)..MaxSteps

InitMove ==
    /\ \E p \in 0..BoardEnd :
          state = [createInitialGameState(StorePlayers(MinPlayers), ModelHazards,
                                       DefaultWinningPositions)
                      EXCEPT !.players[1].position = p]
    /\ threw = FALSE
    /\ run = << >>
    /\ rolled = {}
    /\ AppInit

NextMove ==
    \E id \in PlayerIds(state) \cup {UnknownId}, steps \in MoveInputs :
        MovePlayer(id, steps) /\ UNCHANGED <<hist, app, lib>>

SpecMove == InitMove /\ [][NextMove]_vars

\* C6: for every position p in 0..100 and every steps r >= 1, movePlayer
\* leaves the player at p when p + r > 100 and puts it on p + r otherwise,
\* and changes no other player's position.
C6_MoveOrStay ==
    [][\A id \in PlayerIds(state), r \in 1..MaxSteps :
          MovePlayer(id, r) =>
              LET p == PlayerById(state, id).position
              IN  /\ ~threw'
                  /\ PlayerById(state', id).position =
                        IF p + r > BoardEnd THEN p ELSE p + r
                  /\ \A other \in PlayerIds(state) \ {id} :
                        PlayerById(state', other).position =
                            PlayerById(state, other).position
    ]_vars

\* C6 witness: the second player, who starts on 0, has been moved onto 100
\* while the first stands one short of it
C6_Witness ==
    /\ state # NoState
    /\ state.players[2].position = BoardEnd
    /\ state.players[1].position = BoardEnd - 1
    /\ ~threw

----------------------------------------------------------------------------
(* Winning and finishing *)

\* C7: checkWinCondition(id) is true exactly when that player stands on 100;
\* markPlayerFinished succeeds (isFinished set, finishTime stamped with the
\* latest time) only for a player on 100 and otherwise raises an error and
\* leaves the state unchanged.
C7_WinLaw ==
    /\ [](state # NoState =>
            \A id \in PlayerIdInputs :
                checkWinCondition(state, id) <=>
                  (id \in PlayerIds(state) /\ PlayerById(state, id).position = BoardEnd))
    /\ [][\A id \in PlayerIds(state) :
            MarkPlayerFinished(id) =>
                IF PlayerById(state, id).position = BoardEnd
                THEN /\ ~threw'
                     /\ PlayerById(state', id).isFinished
                     /\ PlayerById(state', id).finishTime # Null
                     /\ \A other \in PlayerIds(state) \ {id} :
                           PlayerById(state', other).finishTime
                              < PlayerById(state', id).finishTime
                ELSE threw' /\ state' = state
         ]_vars

\* C7 witness: a second player has been marked finished and a call has just
\* been refused while another player is short of 100
C7_Witness ==
    /\ state # NoState
    /\ \E i \in 1..Len(state.players) :
          state.players[i].isFinished /\ state.players[i].finishTime = 2
    /\ \E i \in 1..Len(state.players) : state.players[i].position = 50
    /\ threw

\* C8: in every state reached from initializeGame by store calls (movePlayer
\* with dice values, applySpecialMove with a hazard of the game's list,
\* nextTurn, markPlayerFinished, target and dice-config calls) every player's
\* position is an integer in 0..100.
C8_PositionsOnBoard ==
    state # NoState =>
        \A i \in 1..Len(state.players) : state.players[i].position \in 0..BoardEnd

\* C8 witness: one player stands on 100, one on the ladder's top, one on 50
C8_Witness ==
    /\ state # NoState
    /\ \E i, j, k \in 1..Len(state.players) :
          /\ state.players[i].position = BoardEnd
          /\ state.players[j].position = 67
          /\ state.players[k].position = 50

\* C9: in every reachable state with a player who is not finished,
\* currentDiceRollerId is the id of an existing player who is not finished.
C9_RollerNotFinished ==
    (state # NoState /\ ActiveIds(state) # {}) =>
        state.currentDiceRollerId \in ActiveIds(state)

\* C10: finishing is one-way: no store call of the game makes a finished
\* player unfinished, nextTurn never moves the roller to a finished player,
\* and setSelectedTarget never accepts a finished player.
C10_FinishedIsFinal ==
    [][SameGame =>
        /\ FinishedIds(state) \subseteq FinishedIds(state')
        /\ NextTurn =>
              /\ ActiveIds(state) # {} => state'.currentDiceRollerId \in ActiveIds(state)
              /\ ActiveIds(state) = {} => state' = state
        /\ \A id \in FinishedIds(state) :
              SetSelectedTarget(id) => (threw' /\ state' = state)
        /\ state'.selectedTargetId # state.selectedTargetId =>
              state'.selectedTargetId \notin FinishedIds(state)
    ]_vars

\* C10 witness: in round 2 a player is finished, another is the roller and a
\* third is the selected target
C10_Witness ==
    /\ state # NoState
    /\ FinishedIds(state) # {}
    /\ state.currentRound = 2
    /\ state.currentDiceRollerId \in ActiveIds(state)
    /\ state.selectedTargetId \in ActiveIds(state) \ {state.currentDiceRollerId}

----------------------------------------------------------------------------
(* SpecFresh: the calls that write or clear the per-turn fields              *)
(* selectedTargetId and lastDiceResult (setSelectedTarget, the component's   *)
(* updateLastDiceResult, nextTurn) together with those that finish players   *)

\* Dice results recorded by updateLastDiceResult
DiceInputs == {3}

NextFresh ==
    \/ \E n \in 1..MaxPlayers : InitializeGame(n) /\ UNCHANGED <<hist, app, lib>>
    \/ \E id \in PlayerIdInputs, steps \in StepValues :
          MovePlayer(id, steps) /\ UNCHANGED <<hist, app, lib>>
    \/ \E id \in PlayerIdInputs : MarkPlayerFinished(id) /\ UNCHANGED <<hist, app, lib>>
    \/ \E id \in PlayerIdInputs : SetSelectedTarget(id) /\ UNCHANGED <<hist, app, lib>>
    \/ \E d \in DiceInputs : UpdateLastDiceResult(d) /\ UNCHANGED <<hist, app, lib>>
    \/ RoundBelow(MaxTurnsRound) /\ NextTurn /\ UNCHANGED <<hist, app, lib>>

SpecFresh == Init /\ [][NextFresh]_vars

\* C11: after every nextTurn call on an initialized game, selectedTargetId
\* is null and lastDiceResult is null.
C11_NextTurnClearsPerTurnState ==
    [][(state # NoState /\ NextTurn) =>
          (state'.selectedTargetId = Null /\ state'.lastDiceResult = Null)]_vars

\* C12: setSelectedTarget(id) succeeds exactly when id is the id of a
\* non-finished player, the current roller or not; on success selectedTargetId
\* becomes id and nothing else changes; for an unknown or finished id it
\* throws and leaves the state unchanged.
C12_SetSelectedTargetContract ==
    [][\A id \in PlayerIdInputs :
          (state # NoState /\ SetSelectedTarget(id)) =>
              IF id \in ActiveIds(state)
              THEN ~threw' /\ state' = [state EXCEPT !.selectedTargetId = id]
              ELSE threw' /\ state' = state
      ]_vars

\* C12 witness: a player who is not the roller is the selected target while
\* another player is finished
C12_Witness ==
    /\ state # NoState
    /\ ~threw
    /\ state.selectedTargetId \in ActiveIds(state) \ {state.currentDiceRollerId}
    /\ FinishedIds(state) # {}
    /\ state.currentDiceRollerId \in ActiveIds(state)

----------------------------------------------------------------------------
(* StorageService: the persisted record and its codec                       *)
(*                                                                          *)
(* A JavaScript value whose runtime type the codec inspects is written as   *)
(* a record tagged with that type; reading a property that is absent gives  *)
(* the undefined value.  A Date is its time value in milliseconds, or the   *)
(* Invalid Date; an ISO-8601 text is its date part (days since the epoch)   *)
(* and its time part (milliseconds of the day).  gameId, createdAt,         *)
(* lastUpdatedAt and the players' names, which the store model leaves out,  *)
(* are put back when a GameState is handed to the service.                  *)

JUndefined == [kind |-> "undefined"]
JNull == [kind |-> "null"]
JString(v) == [kind |-> "string", iso |-> FALSE, v |-> v]
JIso(day, ms) == [kind |-> "string", iso |-> TRUE, day |-> day, ms |-> ms]
JNumber(v) == [kind |-> "number", v |-> v]
JBoolean(v) == [kind |-> "boolean", v |-> v]
JArray(v) == [kind |-> "array", v |-> v]
Date(time) == [kind |-> "date", valid |-> TRUE, time |-> time]
InvalidDate == [kind |-> "date", valid |-> FALSE, time |-> 0]

\* JavaScript truthiness (!v is its negation)
Truthy(j) ==
    CASE j.kind \in {"undefined", "null"} -> FALSE
      [] j.kind = "string" -> j.iso \/ j.v # ""
      [] j.kind = "number" -> j.v # 0
      [] j.kind = "boolean" -> j.v
      [] OTHER -> TRUE

DayMs == 24 * 60 * 60 * 1000

\* Mutant: the milliseconds are left out of the text
toISOString_NoMillis(d) ==
    JIso(d.time \div DayMs, ((d.time % DayMs) \div 1000) * 1000)

\* Date.prototype.toISOString() of a valid Date
toISOString(d) == JIso(d.time \div DayMs, d.time % DayMs)

\* new Date(value) for the values a parsed record can hold
NewDate(j) ==
    CASE j.kind = "string" ->
             IF j.iso THEN Date(j.day * DayMs + j.ms) ELSE InvalidDate
      [] j.kind = "number" -> Date(j.v)
      [] j.kind = "null" -> Date(0)
      [] OTHER -> InvalidDate

\* The finish stamp number k of a game, as a Date
FinishEpoch == 20 * DayMs
FinishDate(k) == Date(FinishEpoch + k)

\* The Player object for a player of the store model
PlayerObject(pl) ==
    [ id |-> JString("id" \o ToString(pl.id)),
      name |-> JString("P" \o ToString(pl.id)),
      position |-> JNumber(pl.position),
      finishTime |-> IF pl.finishTime = Null THEN JUndefined
                     ELSE FinishDate(pl.finishTime),
      other |-> [key |-> pl.id, isFinished |-> pl.isFinished,
                 turnOrder |-> pl.turnOrder] ]

\* The GameState object for a state s of the store model, created at
\* createdAt and last updated at lastUpdatedAt
GameStateObject(s, createdAt, lastUpdatedAt) ==
    [ gameId |-> JString("game"),
      players |-> JArray([i \in 1..Len(s.players) |-> PlayerObject(s.players[i])]),
      snakesAndLadders |-> JArray(s.snakesAndLadders),
      isGameStarted |-> JBoolean(s.isGameStarted),
      isGameFinished |-> JBoolean(s.isGameFinished),
      createdAt |-> createdAt,
      lastUpdatedAt |-> lastUpdatedAt,
      other |-> [ currentDiceRollerId |-> s.currentDiceRollerId,
                  selectedTargetId |-> s.selectedTargetId,
                  lastDiceResult |-> s.lastDiceResult,
                  diceConfig |-> s.diceConfig,
                  currentRound |-> s.currentRound,
                  turnsInCurrentRound |-> s.turnsInCurrentRound,
                  showTokenForPlayerId |-> s.showTokenForPlayerId,
                  winningPositions |-> s.winningPositions ] ]

\* serializeState(state): Dates become ISO texts; an undefined finishTime
\* stays undefined and JSON.stringify leaves the key out
serializeState(x) ==
    [x EXCEPT
        !.createdAt = toISOString(@),
        !.lastUpdatedAt = toISOString(@),
        !.players = JArray([i \in 1..Len(@.v) |->
                        [@.v[i] EXCEPT !.finishTime =
                            IF Truthy(@) THEN toISOString(@) ELSE JUndefined]])]

\* toISOString throws a RangeError on the Invalid Date
SerializeThrows(x) ==
    \/ ~x.createdAt.valid
    \/ ~x.lastUpdatedAt.valid
    \/ \E i \in 1..Len(x.players.v) :
          /\ Truthy(x.players.v[i].finishTime)
          /\ ~x.players.v[i].finishTime.valid

\* saveGameState(state)
saveGameState(st, x) ==
    IF ~st.isStorageAvailable THEN st
    ELSE IF SerializeThrows(x) THEN st
    ELSE [st EXCEPT !.item = [text |-> "json", data |-> serializeState(x)]]

\* clearGameState()
clearGameState(st) ==
    IF ~st.isStorageAvailable THEN st ELSE [st EXCEPT !.item = NoRecord]

\* deserializeState(data) throws a TypeError when data.players has no map
DeserializeThrows(data) == data.players.kind # "array"

\* deserializeState(data): ISO texts become Dates again
deserializeState(data) ==
    [data EXCEPT
        !.createdAt = NewDate(@),
        !.lastUpdatedAt = NewDate(@),
        !.players = JArray([i \in 1..Len(@.v) |->
                        [@.v[i] EXCEPT !.finishTime =
                            IF Truthy(@) THEN NewDate(@) ELSE JUndefined]])]

IsValidDate(j) == j.kind = "date" /\ j.valid

\* validateState(state): the reason of the CorruptedStateError it throws,
\* "" when it returns
validateState(x) ==
    IF ~Truthy(x.gameId) \/ x.gameId.kind # "string"
        THEN "Missing or invalid gameId"
    ELSE IF x.players.kind # "array"
        THEN "Missing or invalid players array"
    ELSE IF x.snakesAndLadders.kind # "array"
        THEN "Missing or invalid snakesAndLadders array"
    ELSE IF x.isGameStarted.kind # "boolean"
        THEN "Missing or invalid isGameStarted"
    ELSE IF x.isGameFinished.kind # "boolean"
        THEN "Missing or invalid isGameFinished"
    ELSE IF ~IsValidDate(x.createdAt)
        THEN "Invalid createdAt date"
    ELSE IF ~IsValidDate(x.lastUpdatedAt)
        THEN "Invalid lastUpdatedAt date"
    ELSE IF \E i \in 1..Len(x.players.v) :
               \/ ~Truthy(x.players.v[i].id)
               \/ ~Truthy(x.players.v[i].name)
               \/ x.players.v[i].position.kind # "number"
        THEN "Invalid player data"
    ELSE ""

Returned(x) == [kind |-> "state", value |-> x]
ReturnedNull == [kind |-> "null"]
Corrupted(reason) == [kind |-> "CorruptedStateError", reason |-> reason]

\* Mutant: the record is read whether or not storage was found available
loadGameState_NoAvailabilityTest(st) ==
    IF st.item = NoRecord THEN [result |-> ReturnedNull, stored |-> st]
    ELSE IF st.item.text # "json"
        THEN [result |-> Corrupted("SyntaxError"), stored |-> clearGameState(st)]
    ELSE IF DeserializeThrows(st.item.data)
        THEN [result |-> Corrupted("TypeError"), stored |-> clearGameState(st)]
    ELSE LET x == deserializeState(st.item.data)
             reason == validateState(x)
         IN  IF reason # ""
             THEN [result |-> Corrupted(reason), stored |-> st]
             ELSE [result |-> Returned(x), stored |-> st]

\* loadGameState(): its outcome and the storage it leaves
loadGameState(st) ==
    IF ~st.isStorageAvailable THEN [result |-> ReturnedNull, stored |-> st]
    ELSE IF st.item = NoRecord THEN [result |-> ReturnedNull, stored |-> st]
    ELSE IF st.item.text # "json"
        \* JSON.parse throws a SyntaxError: the record is cleared
        THEN [result |-> Corrupted("SyntaxError"), stored |-> clearGameState(st)]
    ELSE IF DeserializeThrows(st.item.data)
        \* any error but CorruptedStateError: the record is cleared
        THEN [result |-> Corrupted("TypeError"), stored |-> clearGameState(st)]
    ELSE LET x == deserializeState(st.item.data)
             reason == validateState(x)
         IN  IF reason # ""
             \* a CorruptedStateError of validateState is thrown on as it is
             THEN [result |-> Corrupted(reason), stored |-> st]
             ELSE [result |-> Returned(x), stored |-> st]

----------------------------------------------------------------------------
(* GameMainComponent: the roll sequence (onRollDice) and the handlers that  *)
(* can run while it waits.  JavaScript runs a handler, and the part of an   *)
(* async function between two awaits, to completion: each is one action.    *)
(* The dice-roll countdown, the notifications and the animations' drawing   *)
(* write no field modelled here.                                            *)

LADDER_CHOICE_TIMEOUT == 5

\* FIXED_MAP_CONFIG
FIXED_MAP_CONFIG ==
    << [id |-> "l1", type |-> "ladder", startPosition |-> 1, endPosition |-> 38],
       [id |-> "l2", type |-> "ladder", startPosition |-> 3, endPosition |-> 14],
       [id |-> "l3", type |-> "ladder", startPosition |-> 7, endPosition |-> 25],
       [id |-> "l4", type |-> "ladder", startPosition |-> 8, endPosition |-> 30],
       [id |-> "l5", type |-> "ladder", startPosition |-> 21, endPosition |-> 42],
       [id |-> "l6", type |-> "ladder", startPosition |-> 28, endPosition |-> 76],
       [id |-> "l7", type |-> "ladder", startPosition |-> 50, endPosition |-> 67],
       [id |-> "l8", type |-> "ladder", startPosition |-> 58, endPosition |-> 77],
       [id |-> "l9", type |-> "ladder", startPosition |-> 69, endPosition |-> 87],
       [id |-> "l10", type |-> "ladder", startPosition |-> 71, endPosition |-> 92],
       [id |-> "l11", type |-> "ladder", startPosition |-> 80, endPosition |-> 99],
       [id |-> "l12", type |-> "ladder", startPosition |-> 63, endPosition |-> 97],
       [id |-> "s1", type |-> "snake", startPosition |-> 36, endPosition |-> 18],
       [id |-> "s2", type |-> "snake", startPosition |-> 32, endPosition |-> 10],
       [id |-> "s3", type |-> "snake", startPosition |-> 48, endPosition |-> 26],
       [id |-> "s5", type |-> "snake", startPosition |-> 64, endPosition |-> 44],
       [id |-> "s6", type |-> "snake", startPosition |-> 88, endPosition |-> 66],
       [id |-> "s7", type |-> "snake", startPosition |-> 95, endPosition |-> 75] >>

\* checkSnakeOrLadder(position): the first entry that starts at position
checkSnakeOrLadder(s, position) ==
    IF s = NoState THEN NoSpecial
    ELSE LET hits == { i \in 1..Len(s.snakesAndLadders) :
                          s.snakesAndLadders[i].startPosition = position }
         IN  IF hits = {} THEN NoSpecial
             ELSE s.snakesAndLadders[CHOOSE i \in hits : \A j \in hits : i <= j]

PositionOf(s, id) == s.players[FindIndexById(s.players, id) + 1].position

\* The GameState object of a store state; the model keeps no clock, so its
\* two dates are the epoch
CurrentStateObject(s) == GameStateObject(s, Date(0), Date(0))

\* updateFromState(state), run by the state$ subscription on every
\* published state that is not null
DICE_ROLL_TIMEOUT == 15

\* clearDiceRollTimer()
clearDiceRollTimer(c) ==
    [c EXCEPT !.diceRollTimerInterval = FALSE,
              !.diceRollCountdown = 0,
              !.diceRollTimeExpired = FALSE]

\* startDiceRollTimer(): the interval is set, its callback is
\* diceRollTimerCallback
startDiceRollTimer(c) ==
    [clearDiceRollTimer(c) EXCEPT !.diceRollCountdown = DICE_ROLL_TIMEOUT,
                                  !.diceRollTimeExpired = FALSE,
                                  !.diceRollTimerInterval = TRUE]

\* Mutant: the expiry of the countdown rolls the dice
diceRollTimerCallback_AutoRoll(c) ==
    LET c1 == [c EXCEPT !.diceRollCountdown = @ - 1]
    IN  IF c1.diceRollCountdown <= 0
        THEN [c1 EXCEPT !.diceRollTimerInterval = FALSE,
                        !.diceRollTimeExpired = TRUE,
                        !.isRolling = TRUE, !.pc = "delay", !.inFlight = @ + 1]
        ELSE c1

\* The callback of the interval startDiceRollTimer sets
diceRollTimerCallback(c) ==
    LET c1 == [c EXCEPT !.diceRollCountdown = @ - 1]
    IN  IF c1.diceRollCountdown <= 0
        THEN [c1 EXCEPT !.diceRollTimerInterval = FALSE,
                        !.diceRollTimeExpired = TRUE]
        ELSE c1

updateFromState(c, s) ==
    LET previousSelectedTarget == c.selectedTarget
        c1 == [c EXCEPT
                 !.selectedTarget =
                     IF s.selectedTargetId # Null
                           /\ FindIndexById(s.players, s.selectedTargetId) # -1
                     THEN s.selectedTargetId ELSE Null,
                 !.isGameFinished = s.isGameFinished]
    IN  IF /\ previousSelectedTarget = Null /\ c1.selectedTarget # Null
           /\ ~c1.isRolling /\ ~c1.isGameFinished
           /\ c1.diceRollCountdown = 0 /\ s.isGameStarted
        THEN startDiceRollTimer(c1)
        ELSE c1

\* Mutant: a roll request is accepted while a roll is in flight
canRollDice_IgnoresRolling(c, s) ==
    /\ c.selectedTarget # Null
    /\ ~c.isGameFinished
    /\ s # NoState /\ s.isGameStarted

\* get canRollDice()
canRollDice(c, s) ==
    /\ ~c.isRolling
    /\ c.selectedTarget # Null
    /\ ~c.isGameFinished
    /\ s # NoState /\ s.isGameStarted

\* Mutant: the interval is left running
clearLadderTimer_KeepsInterval(c) ==
    [c EXCEPT !.ladderCountdown = 0]

\* clearLadderTimer()
clearLadderTimer(c) ==
    [c EXCEPT !.ladderTimerInterval = FALSE, !.ladderCountdown = 0]

\* One effect of the roll sequence, with the positions, finished flags and
\* roller it leaves
Effect(op, s) ==
    [ op |-> op,
      positions |-> [i \in 1..Len(s.players) |-> s.players[i].position],
      finished |-> FinishedIds(s),
      roller |-> s.currentDiceRollerId ]

Logged(c, op, s) == [c EXCEPT !.log = Append(@, Effect(op, s))]

\* What a part of the roll sequence leaves behind
Outcome(s, st, c, error) == [state |-> s, stored |-> st, comp |-> c, threw |-> error]

\* The end of the try block: the countdown of the next roll starts unless
\* the component holds the game to be finished
TimerForNextTurn(c) == IF ~c.isGameFinished THEN startDiceRollTimer(c) ELSE c

\* finally: isRolling = false
Finally(c) ==
    [c EXCEPT !.isRolling = FALSE, !.pc = "idle", !.inFlight = @ - 1]

\* catch (error) ... finally
Caught(s, st, c) == Outcome(s, st, Finally(c), TRUE)

\* Mutant: the turn is passed before the state is saved
EndOfRoll_TurnFirst(s, st, c) ==
    IF s = NoState THEN Caught(s, st, c)
    ELSE LET stateAfterTurn == nextTurnUpdater(s).state
             st1 == saveGameState(st, CurrentStateObject(stateAfterTurn))
             c1 == Logged(Logged(updateFromState(c, stateAfterTurn),
                                 "nextTurn", stateAfterTurn),
                          "saveGameState", stateAfterTurn)
         IN  Outcome(stateAfterTurn, st1, Finally(TimerForNextTurn(c1)), FALSE)

\* onRollDice from "const finalState = getCurrentState()" to its end:
\* saveGameState(finalState), nextTurn(), saveGameState(stateAfterTurn),
\* startDiceRollTimer().  The outcome also tells what the storage holds
\* between the two saves (firstSave).
EndOfRoll(s, st, c) ==
    IF s = NoState THEN Caught(s, st, c)
    ELSE LET st1 == saveGameState(st, CurrentStateObject(s))
             stateAfterTurn == nextTurnUpdater(s).state
             st2 == saveGameState(st1, CurrentStateObject(stateAfterTurn))
             c1 == Logged(Logged(Logged(updateFromState(c, stateAfterTurn),
                                        "saveGameState", s),
                                 "nextTurn", stateAfterTurn),
                          "saveGameState", stateAfterTurn)
         IN  [firstSave |-> st1] @@
             Outcome(stateAfterTurn, st2, Finally(TimerForNextTurn(c1)), FALSE)

\* onRollDice from "setShowTokenForPlayer(targetPlayer.id)" after the move
\* to the await of the finish celebration, or to its end
AfterSpecial(s, st, c) ==
    IF s = NoState THEN Caught(s, st, c)
    ELSE LET shown == setShowTokenForPlayerUpdater(s, c.targetPlayer)
         IN  IF ~shown.ok THEN Caught(s, st, c)
             ELSE IF checkWinCondition(shown.state, c.targetPlayer)
             THEN LET finished == markPlayerFinishedUpdater(shown.state, c.targetPlayer)
                      rank == Cardinality(FinishedIds(finished.state))
                      c0 == [updateFromState(c, finished.state)
                               EXCEPT !.finishPlayerRank = rank,
                                      !.finishRanks =
                                          Append(@, [playerId |-> c.targetPlayer,
                                                     rank |-> rank])]
                      c1 == Logged(c0, "markPlayerFinished", finished.state)
                  IN  IF ~finished.ok THEN Caught(shown.state, st, c)
                      ELSE Outcome(finished.state, st,
                                   [c1 EXCEPT !.pc = "celebrate",
                                              !.finishModalTimeout = TRUE],
                                   FALSE)
             ELSE EndOfRoll(shown.state, st, updateFromState(c, shown.state))

\* handleLadderChoice after its await, and onRollDice after it when the
\* ladder is not climbed
AfterLadderChoice(s, st, c, climbLadder) ==
    LET c1 == clearLadderTimer([c EXCEPT !.currentLadder = NoSpecial,
                                         !.ladderChoiceResolver = FALSE])
    IN  IF climbLadder
        THEN IF s = NoState THEN Caught(s, st, c1)
             ELSE LET moved == applySpecialMoveUpdater(s, c.targetPlayer,
                                                      c.currentLadder)
                  IN  IF ~moved.ok THEN Caught(s, st, c1)
                      ELSE Outcome(moved.state, st,
                                   [Logged(updateFromState(c1, moved.state),
                                           "applySpecialMove", moved.state)
                                      EXCEPT !.pc = "animLadder"],
                                   FALSE)
        ELSE AfterSpecial(s, st, c1)

\* An action of the component publishes the outcome of its code
Leaves(o) ==
    /\ state' = o.state
    /\ stored' = o.stored
    /\ comp' = o.comp
    /\ threw' = o.threw
    /\ UNCHANGED <<hist, loaded, lib>>

\* The component when an accepted onRollDice() reaches its first await
RollRequested(c) ==
    [clearDiceRollTimer(c)
        EXCEPT !.isRolling = TRUE, !.pc = "delay",
               !.inFlight = @ + 1, !.log = << >>,
               !.targetPlayer = Null, !.diceResult = Null]

\* onRollDice() up to its first await
OnRollDice ==
    IF ~canRollDice(comp, state)
    THEN UNCHANGED vars
    ELSE /\ comp' = RollRequested(comp)
         /\ UNCHANGED <<state, threw, stored, hist, loaded, lib>>

\* onRollDice after delay(1000): the dice is rolled and recorded, then the
\* overshoot branch runs to the end of the roll, or the move branch to the
\* await of the token animation
AfterDelay(s, st, c, diceResult) ==
    IF s = NoState
    THEN Caught(s, st, c)
    ELSE LET recorded == [s EXCEPT !.lastDiceResult = diceResult]
             c1 == [updateFromState(c, recorded)
                       EXCEPT !.diceResult = diceResult]
             targetPlayer == c1.selectedTarget
         IN  IF targetPlayer = Null
             THEN Caught(recorded, st, c1)
             ELSE LET fromPosition == PositionOf(recorded, targetPlayer)
                      c2 == [c1 EXCEPT !.targetPlayer = targetPlayer,
                                       !.fromPosition = fromPosition]
                  IN  IF fromPosition + diceResult > BoardEnd
                      THEN LET shown == setShowTokenForPlayerUpdater(recorded, targetPlayer)
                           IN  EndOfRoll(shown.state, st,
                                         updateFromState(c2, shown.state))
                      ELSE LET moved == movePlayerUpdater(recorded, targetPlayer, diceResult)
                           IN  IF ~moved.ok
                               THEN Caught(recorded, st, c2)
                               ELSE Outcome(moved.state, st,
                                      [Logged(updateFromState(c2, moved.state),
                                              "movePlayer", moved.state)
                                         EXCEPT !.pc = "animMove"],
                                      FALSE)

ResumeAfterDelay(diceResult) ==
    /\ comp.pc = "delay"
    /\ state # NoState => diceResult \in RollDiceResults(state)
    /\ Leaves(AfterDelay(state, stored, comp, diceResult))

\* onRollDice after the token animation: checkSnakeOrLadder(toPosition); a
\* snake is applied, a ladder opens the choice and starts its countdown
AfterMoveAnimation(s, st, c) ==
    LET toPosition == c.fromPosition + c.diceResult
        special == checkSnakeOrLadder(s, toPosition)
    IN  IF special = NoSpecial
        THEN AfterSpecial(s, st, c)
        ELSE IF special.type = "snake"
        THEN LET moved == applySpecialMoveUpdater(s, c.targetPlayer, special)
             IN  IF ~moved.ok
                 THEN Caught(s, st, c)
                 ELSE Outcome(moved.state, st,
                        [Logged(updateFromState(c, moved.state),
                                "applySpecialMove", moved.state)
                           EXCEPT !.pc = "animSnake"],
                        FALSE)
        ELSE Outcome(s, st,
               [c EXCEPT !.pc = "ladder",
                         !.currentLadder = special,
                         !.ladderChoiceResolver = TRUE,
                         !.ladderTimerInterval = TRUE,
                         !.ladderCountdown = LADDER_CHOICE_TIMEOUT],
               threw)

ResumeAfterMoveAnimation ==
    /\ comp.pc = "animMove"
    /\ Leaves(AfterMoveAnimation(state, stored, comp))

\* onRollDice after the animation of a snake slide or a ladder climb
ResumeAfterSpecialAnimation ==
    /\ comp.pc \in {"animSnake", "animLadder"}
    /\ Leaves(AfterSpecial(state, stored, comp))

\* onAcceptLadder() (climbLadder) and onDeclineLadder() (not climbLadder)
LadderChoice(s, st, c, climbLadder) ==
    LET c1 == clearLadderTimer(c)
    IN  IF c1.ladderChoiceResolver
        THEN AfterLadderChoice(s, st, c1, climbLadder)
        ELSE Outcome(s, st, c1, threw)

OnAcceptLadder == Leaves(LadderChoice(state, stored, comp, TRUE))

OnDeclineLadder == Leaves(LadderChoice(state, stored, comp, FALSE))

\* The callback of the interval startLadderTimer sets
LadderTimerCallback(s, st, c) ==
    LET c1 == [c EXCEPT !.ladderCountdown = @ - 1]
    IN  IF c1.ladderCountdown <= 0
        THEN LadderChoice(s, st, c1, TRUE)
        ELSE Outcome(s, st, c1, threw)

LadderTimerTick ==
    /\ comp.ladderTimerInterval
    /\ Leaves(LadderTimerCallback(state, stored, comp))

\* A tick of the interval startDiceRollTimer sets
DiceRollTimerTick ==
    /\ comp.diceRollTimerInterval
    /\ Leaves(Outcome(state, stored, diceRollTimerCallback(comp), threw))

\* The timeout of showFinishCelebration resolves its promise; onRollDice
\* goes on with checkGameEnd() and runs to its end
AfterCelebration(s, st, c) ==
    LET c1 == [c EXCEPT !.finishModalTimeout = FALSE,
                        !.isGameFinished = IF checkGameEnd(s) THEN TRUE ELSE @]
    IN  EndOfRoll(s, st, c1)

ResumeAfterCelebration ==
    /\ comp.pc = "celebrate"
    /\ comp.finishModalTimeout
    /\ Leaves(AfterCelebration(state, stored, comp))

\* closeFinishModal(): clears the timeout that would resolve the promise
CloseFinishModal ==
    /\ comp.finishModalTimeout
    /\ Leaves(Outcome(state, stored, [comp EXCEPT !.finishModalTimeout = FALSE], threw))

\* onTargetSelected(targetId)
TargetSelected(s, st, c, targetId) ==
    LET shown == setShowTokenForPlayerUpdater(s, targetId)
        selected == setSelectedTargetUpdater(shown.state, targetId)
    IN  IF ~shown.ok THEN Outcome(s, st, c, TRUE)
        ELSE IF ~selected.ok
        THEN Outcome(shown.state, st, updateFromState(c, shown.state), TRUE)
        ELSE Outcome(selected.state,
                     saveGameState(st, CurrentStateObject(selected.state)),
                     updateFromState(c, selected.state), FALSE)

OnTargetSelected(targetId) ==
    IF state = NoState
    THEN UNCHANGED vars
    ELSE Leaves(TargetSelected(state, stored, comp, targetId))

\* confirmReset()
confirmReset(s, st, c) == Outcome(NoState, clearGameState(st), c, FALSE)

ConfirmReset == Leaves(confirmReset(state, stored, comp))

----------------------------------------------------------------------------
(* SpecRoll: a started two-player game on the fixed map, taken up at the   *)
(* positions of StartPositions, played through the component               *)

MaxRollRound == 3   \* rolls are requested while currentRound < MaxRollRound

\* Positions the two players are on when the exploration starts
StartPositions == {0, 24, 46, 96}

\* Dice results explored: 4 takes 46 to the ladder at 50 and 96 to 100; 12
\* takes 24 to the snake at 36 and overshoots from 96
DiceSeen == {4, 12}

InitRoll ==
    /\ \E p1, p2 \in StartPositions :
          state = [createInitialGameState(StorePlayers(MinPlayers), FIXED_MAP_CONFIG,
                                       DefaultWinningPositions)
                      EXCEPT !.isGameStarted = TRUE,
                             !.players[1].position = p1,
                             !.players[2].position = p2]
    /\ threw = FALSE
    /\ run = << >>
    /\ rolled = {}
    /\ AppInit

NextRoll ==
    \/ RoundBelow(MaxRollRound) /\ OnRollDice
    \/ \E d \in DiceSeen : ResumeAfterDelay(d)
    \/ ResumeAfterMoveAnimation
    \/ ResumeAfterSpecialAnimation
    \/ OnAcceptLadder
    \/ OnDeclineLadder
    \/ LadderTimerTick
    \/ ResumeAfterCelebration
    \/ CloseFinishModal
    \/ \E id \in PlayerIds(state) : OnTargetSelected(id)
    \/ ConfirmReset

SpecRoll == InitRoll /\ [][NextRoll]_vars

LogOps(c) == [i \in 1..Len(c.log) |-> c.log[i].op]

\* The place of the i-th effect of a roll in the order position change,
\* hazard resolution, win check, persistence write, turn advance (and the
\* write of the state after the turn advance)
StageOf(ops, i) ==
    CASE ops[i] = "movePlayer" -> 1
      [] ops[i] = "applySpecialMove" -> 2
      [] ops[i] = "markPlayerFinished" -> 3
      [] ops[i] = "saveGameState" ->
            IF \E k \in 1..(i - 1) : ops[k] = "nextTurn" THEN 6 ELSE 4
      [] ops[i] = "nextTurn" -> 5

\* C13: the effects of one roll sequence occur in the order movePlayer,
\* applySpecialMove, markPlayerFinished, saveGameState, nextTurn, none twice
\* and none out of order, and nextTurn comes directly after a saveGameState
\* that wrote the positions and finished flags the roll produced.
C13_EffectsInOrder ==
    LET ops == LogOps(comp)
    IN  /\ \A i, j \in 1..Len(ops) : i < j => StageOf(ops, i) < StageOf(ops, j)
        /\ \A i \in 1..Len(ops) :
              ops[i] = "nextTurn" =>
                  /\ i > 1
                  /\ ops[i - 1] = "saveGameState"
                  /\ comp.log[i - 1].positions = comp.log[i].positions
                  /\ comp.log[i - 1].finished = comp.log[i].finished
                  /\ i > 2 => /\ comp.log[i - 1].positions = comp.log[i - 2].positions
                              /\ comp.log[i - 1].finished = comp.log[i - 2].finished

\* C13 witness: a roll has ended that moved the target, resolved a hazard,
\* saved, passed the turn and saved again
C13_Witness ==
    /\ comp.pc = "idle"
    /\ LogOps(comp) = << "movePlayer", "applySpecialMove", "saveGameState",
                         "nextTurn", "saveGameState" >>

\* C14: at most one roll sequence is in flight; a roll request made while
\* isRolling is true changes nothing; isRolling is true exactly while a
\* sequence is in flight, so it is false again once the sequence has ended,
\* by an error or not.
C14_OneRollInFlight ==
    /\ [](/\ comp.inFlight \in {0, 1}
          /\ comp.isRolling <=> comp.inFlight = 1
          /\ comp.isRolling <=> comp.pc # "idle")
    /\ [][(comp.isRolling /\ OnRollDice) => UNCHANGED vars]_vars

\* C14 witness: a roll sequence that had moved the target has ended with an
\* error and isRolling is false again
C14_Witness ==
    /\ threw
    /\ ~comp.isRolling
    /\ comp.pc = "idle"
    /\ Len(comp.log) > 0
    /\ comp.log[Len(comp.log)].op = "movePlayer"

LadderEvent == OnAcceptLadder \/ OnDeclineLadder \/ LadderTimerTick

\* C15: a ladder choice resolves once: a roll applies at most one hazard
\* move, the countdown runs only while the choice is open, and a click made
\* when no choice is open changes no game state and starts nothing.
C15_LadderResolvesOnce ==
    /\ [](/\ Cardinality({ i \in 1..Len(comp.log) :
                             comp.log[i].op = "applySpecialMove" }) <= 1
          /\ comp.ladderTimerInterval => comp.ladderChoiceResolver
          /\ comp.ladderChoiceResolver <=> comp.pc = "ladder")
    /\ [][(~comp.ladderChoiceResolver /\ LadderEvent) =>
              /\ state' = state
              /\ comp'.pc = comp.pc
              /\ comp'.log = comp.log
              /\ ~comp'.ladderTimerInterval /\ ~comp'.ladderChoiceResolver]_vars
    /\ [][(comp.ladderChoiceResolver /\ LadderEvent /\ comp'.pc # "ladder") =>
              ~comp'.ladderTimerInterval /\ ~comp'.ladderChoiceResolver]_vars

\* C15 witness: the ladder at 50 has been climbed and neither a resolver
\* nor a countdown is left
C15_Witness ==
    /\ comp.pc = "animLadder"
    /\ ~comp.ladderTimerInterval
    /\ ~comp.ladderChoiceResolver
    /\ state # NoState
    /\ PositionOf(state, comp.targetPlayer) = 67

\* C16: a move that lands on a snake's start puts the target on the snake's
\* end and opens no choice; on a ladder's start, accepting or the expiry of
\* the countdown puts the target on the ladder's end and declining leaves it
\* on the ladder's start.
C16_HazardResolution ==
    /\ [][(state # NoState /\ ResumeAfterMoveAnimation
             /\ checkSnakeOrLadder(state, comp.fromPosition + comp.diceResult).type = "snake") =>
              /\ state' # NoState
              /\ PositionOf(state', comp.targetPlayer) =
                    checkSnakeOrLadder(state, comp.fromPosition + comp.diceResult).endPosition
              /\ ~comp'.ladderChoiceResolver]_vars
    /\ [][(state # NoState /\ comp.ladderChoiceResolver
             /\ (OnAcceptLadder \/ (LadderTimerTick /\ comp.ladderCountdown = 1))) =>
              /\ state' # NoState
              /\ PositionOf(state', comp.targetPlayer) = comp.currentLadder.endPosition]_vars
    /\ [][(state # NoState /\ comp.ladderChoiceResolver /\ OnDeclineLadder) =>
              /\ state' # NoState
              /\ PositionOf(state, comp.targetPlayer) = comp.currentLadder.startPosition
              /\ PositionOf(state', comp.targetPlayer) = comp.currentLadder.startPosition]_vars

\* C16 witness: the countdown of the ladder at 50 has one second left
C16_Witness ==
    /\ comp.pc = "ladder"
    /\ comp.ladderCountdown = 1
    /\ comp.currentLadder.startPosition = 50

Positions(s) == [i \in 1..Len(s.players) |-> s.players[i].position]

\* A roll whose dice result takes the selected target beyond 100
OvershootRoll(d) ==
    /\ state # NoState
    /\ comp.selectedTarget # Null
    /\ PositionOf(state, comp.selectedTarget) + d > BoardEnd
    /\ ResumeAfterDelay(d)

\* C17: in a roll where the target's position plus the dice result exceeds
\* 100 no position changes, no hazard and no win check is applied, and
\* nextTurn is executed and moves the roller on to the next non-finished
\* player.
C17_OvershootPassesTurn ==
    [][\A d \in DiceSeen : OvershootRoll(d) =>
          /\ Positions(state') = Positions(state)
          /\ FinishedIds(state') = FinishedIds(state)
          /\ LogOps(comp') = << "saveGameState", "nextTurn", "saveGameState" >>
          /\ ActiveIds(state) # {}
          /\ state'.currentDiceRollerId = NextInRotation(state)
          /\ <<state'.currentRound, state'.turnsInCurrentRound>> #
                <<state.currentRound, state.turnsInCurrentRound>>
      ]_vars

----------------------------------------------------------------------------
(* SpecStorage: a two-player game is played by store calls, saved, and     *)
(* restored on page load; the item under STORAGE_KEY can also have been    *)
(* written by something else than saveGameState                            *)

\* createdAt and lastUpdatedAt values of the states handed to saveGameState
DateInputs == { Date(DayMs + 1), Date(19 * DayMs + 86399999) }

\* The store state a GameState object stands for
StoreState(x) ==
    [ players |-> [i \in 1..Len(x.players.v) |->
                      [ id |-> x.players.v[i].other.key,
                        position |-> x.players.v[i].position.v,
                        isFinished |-> x.players.v[i].other.isFinished,
                        finishTime |-> IF Truthy(x.players.v[i].finishTime)
                                       THEN x.players.v[i].finishTime.time - FinishEpoch
                                       ELSE Null,
                        turnOrder |-> x.players.v[i].other.turnOrder ]],
      snakesAndLadders |-> x.snakesAndLadders.v,
      currentDiceRollerId |-> x.other.currentDiceRollerId,
      selectedTargetId |-> x.other.selectedTargetId,
      lastDiceResult |-> x.other.lastDiceResult,
      diceConfig |-> x.other.diceConfig,
      currentRound |-> x.other.currentRound,
      turnsInCurrentRound |-> x.other.turnsInCurrentRound,
      isGameStarted |-> x.isGameStarted.v,
      isGameFinished |-> x.isGameFinished.v,
      showTokenForPlayerId |-> x.other.showTokenForPlayerId,
      winningPositions |-> x.other.winningPositions ]

\* Structurally invalid records
Damages ==
    { "unparsable", "no gameId", "numeric gameId", "no players", "no hazards",
      "text flag", "bad date", "player without id", "player without name",
      "text position" }

\* The item a structurally invalid record of kind damage is, made from a
\* saved one
Damaged(item, damage) ==
    CASE damage = "unparsable" -> [text |-> "{"]
      [] damage = "no gameId" -> [item EXCEPT !.data.gameId = JUndefined]
      [] damage = "numeric gameId" -> [item EXCEPT !.data.gameId = JNumber(7)]
      [] damage = "no players" -> [item EXCEPT !.data.players = JUndefined]
      [] damage = "no hazards" -> [item EXCEPT !.data.snakesAndLadders = JUndefined]
      [] damage = "text flag" -> [item EXCEPT !.data.isGameFinished = JString("no")]
      [] damage = "bad date" -> [item EXCEPT !.data.createdAt = JString("today")]
      [] damage = "player without id" ->
            [item EXCEPT !.data.players.v[1].id = JUndefined]
      [] damage = "player without name" ->
            [item EXCEPT !.data.players.v[1].name = JString("")]
      [] damage = "text position" ->
            [item EXCEPT !.data.players.v[1].position = JString("7")]

\* storageService.saveGameState(state) on the store's current state
SaveGameState(createdAt, lastUpdatedAt) ==
    /\ state # NoState
    /\ stored' = saveGameState(stored, GameStateObject(state, createdAt, lastUpdatedAt))
    /\ loaded' = NotLoaded
    /\ UNCHANGED <<state, threw, hist, comp, lib>>

\* The valid item under STORAGE_KEY is replaced by a structurally invalid one
Tamper(damage) ==
    /\ stored.isStorageAvailable
    /\ stored.item # NoRecord
    /\ loadGameState(stored).result.kind = "state"
    /\ stored' = [stored EXCEPT !.item = Damaged(@, damage)]
    /\ loaded' = NotLoaded
    /\ UNCHANGED <<state, threw, hist, comp, lib>>

\* restoreGameState() of a component c on a store holding s:
\* loadGameState(); a state is published with selectedTargetId null; an
\* error opens the error boundary
restoreGameState(c, s) ==
    LET load == loadGameState(stored)
    IN  /\ loaded' = load.result
        /\ stored' = load.stored
        /\ IF load.result.kind = "state"
           THEN LET restoredState == [StoreState(load.result.value)
                                         EXCEPT !.selectedTargetId = Null]
                IN  /\ state' = restoredState
                    /\ comp' = updateFromState(c, restoredState)
           ELSE IF load.result.kind = "null"
           THEN state' = s /\ comp' = c
           ELSE state' = s /\ comp' = [c EXCEPT !.hasError = TRUE]
        /\ threw' = FALSE
        /\ UNCHANGED <<hist, lib>>

\* The page is loaded: a new store and a new component, whose ngOnInit
\* calls restoreGameState()
PageLoad == restoreGameState(IdleComp, NoState)

\* onErrorRetry()
OnErrorRetry ==
    /\ comp.hasError
    /\ restoreGameState([comp EXCEPT !.hasError = FALSE], state)

\* onErrorReset()
OnErrorReset ==
    /\ comp.hasError
    /\ stored' = clearGameState(stored)
    /\ state' = NoState
    /\ threw' = FALSE
    /\ loaded' = NotLoaded
    /\ UNCHANGED <<hist, comp, lib>>

InitStorage ==
    /\ state = [createInitialGameState(StorePlayers(MinPlayers), ModelHazards,
                                       DefaultWinningPositions)
                   EXCEPT !.isGameStarted = TRUE]
    /\ threw = FALSE
    /\ run = << >>
    /\ rolled = {}
    /\ comp = IdleComp
    /\ \E available \in BOOLEAN :
          stored = [isStorageAvailable |-> available, item |-> NoRecord]
    /\ loaded = NotLoaded
    /\ LibInit

NextStorage ==
    \/ \E id \in PlayerIds(state), steps \in StepValues :
          MovePlayer(id, steps) /\ loaded' = NotLoaded /\ UNCHANGED <<hist, comp, stored, lib>>
    \/ \E id \in PlayerIds(state) :
          MarkPlayerFinished(id) /\ loaded' = NotLoaded /\ UNCHANGED <<hist, comp, stored, lib>>
    \/ \E createdAt, lastUpdatedAt \in DateInputs :
          createdAt.time <= lastUpdatedAt.time /\ SaveGameState(createdAt, lastUpdatedAt)
    \/ \E damage \in Damages : Tamper(damage)
    \/ PageLoad
    \/ OnErrorRetry
    \/ OnErrorReset

SpecStorage == InitStorage /\ [][NextStorage]_vars

\* A call of loadGameState made by the component
LoadCall == PageLoad \/ OnErrorRetry

\* C18: whenever loadGameState raises CorruptedStateError the stored record
\* has been removed, so that the next loadGameState returns null.
C18_CorruptedRecordIsRemoved ==
    [][(LoadCall /\ loaded'.kind = "CorruptedStateError") =>
          /\ stored'.item = NoRecord
          /\ loadGameState(stored').result = ReturnedNull]_vars

\* C19: with storage available, loadGameState after saveGameState(x)
\* returns a state equal to x in every field, createdAt, lastUpdatedAt and
\* the players' finishTime included, and saving the loaded state again
\* writes the same record.
C19_SaveLoadRoundTrip ==
    [][\A createdAt, lastUpdatedAt \in DateInputs :
          (stored.isStorageAvailable /\ SaveGameState(createdAt, lastUpdatedAt)) =>
              LET x == GameStateObject(state, createdAt, lastUpdatedAt)
                  load == loadGameState(stored')
              IN  /\ load.result = Returned(x)
                  /\ load.stored = stored'
                  /\ saveGameState(stored', load.result.value) = stored'
      ]_vars

\* C19 witness: a game with a finished player, saved with dates that have
\* milliseconds, has been loaded back and published
C19_Witness ==
    /\ loaded.kind = "state"
    /\ loaded.value.createdAt = Date(DayMs + 1)
    /\ stored.item = [text |-> "json", data |-> serializeState(loaded.value)]
    /\ loaded.value.lastUpdatedAt = Date(19 * DayMs + 86399999)
    /\ \E i \in 1..Len(loaded.value.players.v) :
          loaded.value.players.v[i].finishTime = FinishDate(1)
    /\ state # NoState
    /\ FinishedIds(state) # {}

\* A valid hazard table: no two entries share a start, no two share an end,
\* snakes go down, ladders go up, and no start or end is on cell 1 or 100
ValidHazardTable(table) ==
    /\ \A i, j \in 1..Len(table) :
          i # j => /\ table[i].startPosition # table[j].startPosition
                   /\ table[i].endPosition # table[j].endPosition
    /\ \A i \in 1..Len(table) :
          /\ table[i].type = "snake" => table[i].startPosition > table[i].endPosition
          /\ table[i].type = "ladder" => table[i].startPosition < table[i].endPosition
          /\ table[i].startPosition \notin {1, BoardEnd}
          /\ table[i].endPosition \notin {1, BoardEnd}

\* C20: the hazard list of a game on the fixed map (FIXED_MAP_CONFIG) is a
\* valid hazard table.
C20_FixedMapIsValid ==
    state # NoState =>
        /\ state.snakesAndLadders = FIXED_MAP_CONFIG
        /\ ValidHazardTable(state.snakesAndLadders)

----------------------------------------------------------------------------
(* SnakeOrLadder factories (snake-or-ladder.model.ts).  A validator is     *)
(* written as the condition under which it does not throw.                 *)

validateSnake(startPosition, endPosition) == ~(startPosition <= endPosition)

validateLadder(startPosition, endPosition) == ~(startPosition >= endPosition)

checkDuplicateStartPosition_Never(startPosition, existingElements) == TRUE

checkDuplicateStartPosition(startPosition, existingElements) ==
    LET isDuplicate == \E i \in 1..Len(existingElements) :
                          existingElements[i].startPosition = startPosition
    IN  ~isDuplicate

\* id: a fresh uuid; no operation compares the ids of hazards
createSnake(startPosition, endPosition, existingElements) ==
    IF ~validateSnake(startPosition, endPosition) THEN Failed("InvalidSnakeError")
    ELSE IF ~checkDuplicateStartPosition(startPosition, existingElements)
        THEN Failed("DuplicateStartPositionError")
    ELSE Constructed([id |-> "uuid", type |-> "snake",
                      startPosition |-> startPosition, endPosition |-> endPosition])

createLadder(startPosition, endPosition, existingElements) ==
    IF ~validateLadder(startPosition, endPosition) THEN Failed("InvalidLadderError")
    ELSE IF ~checkDuplicateStartPosition(startPosition, existingElements)
        THEN Failed("DuplicateStartPositionError")
    ELSE Constructed([id |-> "uuid", type |-> "ladder",
                      startPosition |-> startPosition, endPosition |-> endPosition])

----------------------------------------------------------------------------
(* generateSnakesAndLadders (board-layout.util.ts): one action per attempt *)
(* of its two while loops                                                  *)

MIN_POSITION == 2
MAX_POSITION == 99
maxAttempts == 100

\* The config parameter's defaults
DefaultConfig == [count |-> 14, minDistance |-> 10, maxDistance |-> 40]

\* Values of Math.random explored: those giving the least and the greatest
\* integer of the range, and those giving one of Samples
Samples == {52}

Smaller(a, b) == IF a < b THEN a ELSE b

\* The integers getRandomInt(min, max) returns for the explored draws
getRandomInt(min, max) == { v \in min..max : v \in {min, max} \cup Samples }

\* generateSnakesAndLadders(config) up to its first attempt
GenerateSnakesAndLadders(config) ==
    /\ gen = NoGen
    /\ LET numSnakes == config.count \div 2
       IN  gen' = [pc |-> IF numSnakes > 0 THEN "snakes"
                          ELSE IF config.count - numSnakes > 0 THEN "ladders"
                          ELSE "return",
                   config |-> config,
                   elements |-> << >>,
                   usedEndPositions |-> {},
                   numSnakes |-> numSnakes,
                   numLadders |-> config.count - numSnakes,
                   i |-> 0,
                   attempts |-> 0]
    /\ UNCHANGED <<state, threw, hist, app, call>>

\* The locals after an attempt of the snake loop: break leaves the while
\* loop, as does the last attempt; the for loop then takes its next i
SnakeLoop(g, break) ==
    IF ~break /\ g.attempts < maxAttempts THEN g
    ELSE IF g.i + 1 < g.numSnakes
        THEN [g EXCEPT !.i = g.i + 1, !.attempts = 0]
    ELSE [g EXCEPT !.i = 0, !.attempts = 0,
                   !.pc = IF g.numLadders > 0 THEN "ladders" ELSE "return"]

LadderLoop(g, break) ==
    IF ~break /\ g.attempts < maxAttempts THEN g
    ELSE IF g.i + 1 < g.numLadders
        THEN [g EXCEPT !.i = g.i + 1, !.attempts = 0]
    ELSE [g EXCEPT !.i = 0, !.attempts = 0, !.pc = "return"]

\* One pass of the body of the snake loop
SnakeAttempt ==
    /\ gen.pc = "snakes"
    /\ LET g == [gen EXCEPT !.attempts = gen.attempts + 1]
           minDistance == gen.config.minDistance
           maxDistance == gen.config.maxDistance
       IN  \E head \in getRandomInt(MIN_POSITION + minDistance, MAX_POSITION) :
              IF head \in g.usedEndPositions
              THEN gen' = SnakeLoop(g, FALSE)
              ELSE \E distance \in getRandomInt(minDistance,
                                      Smaller(maxDistance, head - MIN_POSITION)) :
                     LET tail == head - distance
                         snake == createSnake(head, tail, g.elements)
                     IN  IF tail < MIN_POSITION \/ tail \in g.usedEndPositions
                         THEN gen' = SnakeLoop(g, FALSE)
                         ELSE IF snake.error # ""
                         THEN gen' = SnakeLoop(g, FALSE)
                         ELSE gen' = SnakeLoop(
                                 [g EXCEPT !.elements = Append(@, snake.value),
                                           !.usedEndPositions = @ \cup {tail}],
                                 TRUE)
    /\ UNCHANGED <<state, threw, hist, app, call>>

\* One pass of the body of the ladder loop
LadderAttempt ==
    /\ gen.pc = "ladders"
    /\ LET g == [gen EXCEPT !.attempts = gen.attempts + 1]
           minDistance == gen.config.minDistance
           maxDistance == gen.config.maxDistance
       IN  \E bottom \in getRandomInt(MIN_POSITION, MAX_POSITION - minDistance) :
              IF bottom \in g.usedEndPositions
              THEN gen' = LadderLoop(g, FALSE)
              ELSE \E distance \in getRandomInt(minDistance,
                                      Smaller(maxDistance, MAX_POSITION - bottom)) :
                     LET top == bottom + distance
                         ladder == createLadder(bottom, top, g.elements)
                     IN  IF top > MAX_POSITION \/ top \in g.usedEndPositions
                         THEN gen' = LadderLoop(g, FALSE)
                         ELSE IF ladder.error # ""
                         THEN gen' = LadderLoop(g, FALSE)
                         ELSE gen' = LadderLoop(
                                 [g EXCEPT !.elements = Append(@, ladder.value),
                                           !.usedEndPositions = @ \cup {top}],
                                 TRUE)
    /\ UNCHANGED <<state, threw, hist, app, call>>

\* The list a finished generateSnakesAndLadders call returned is dropped by
\* its caller; the next call starts afresh
DiscardGenerated ==
    /\ gen # NoGen
    /\ gen.pc = "return"
    /\ gen' = NoGen
    /\ UNCHANGED <<state, threw, hist, app, call>>

NextGen ==
    \/ GenerateSnakesAndLadders(DefaultConfig)
    \/ SnakeAttempt
    \/ LadderAttempt
    \/ DiscardGenerated

SpecGen == Init /\ [][NextGen]_vars

Distance(a, b) == IF a < b THEN b - a ELSE a - b

\* C21: the list generateSnakesAndLadders returns under the default
\* configuration has pairwise distinct starts and pairwise distinct ends,
\* every snake goes down and every ladder up, every start and end is within
\* 2..99, and every distance between start and end is within
\* minDistance..maxDistance.
C21_GeneratedListIsValid ==
    (gen # NoGen /\ gen.pc = "return") =>
        LET elements == gen.elements
        IN  /\ \A i, j \in 1..Len(elements) :
                  i # j => /\ elements[i].startPosition # elements[j].startPosition
                           /\ elements[i].endPosition # elements[j].endPosition
            /\ \A i \in 1..Len(elements) :
                  /\ elements[i].type = "snake" =>
                        elements[i].startPosition > elements[i].endPosition
                  /\ elements[i].type = "ladder" =>
                        elements[i].startPosition < elements[i].endPosition
                  /\ elements[i].startPosition \in MIN_POSITION..MAX_POSITION
                  /\ elements[i].endPosition \in MIN_POSITION..MAX_POSITION
                  /\ Distance(elements[i].startPosition, elements[i].endPosition)
                        \in gen.config.minDistance..gen.config.maxDistance

\* A returned list with snakes and ladders in it, one of them of the least
\* and one of the greatest distance
C21_Witness ==
    /\ gen # NoGen
    /\ gen.pc = "return"
    /\ \E i, j \in 1..Len(gen.elements) :
          /\ gen.elements[i].type = "snake"
          /\ gen.elements[j].type = "ladder"
          /\ Distance(gen.elements[i].startPosition, gen.elements[i].endPosition)
                = gen.config.minDistance
          /\ Distance(gen.elements[j].startPosition, gen.elements[j].endPosition)
                = gen.config.maxDistance

----------------------------------------------------------------------------
(* initializeGame with its player count and winningPositions argument      *)

\* winningPositions arguments explored: every list of at most MaxWinning
\* ranks out of WinningRanks, with repeated and unsorted ones among them
MaxWinning == 2
WinningRanks == {5, 16, 20}
WinningInputs ==
    UNION { [1..k -> WinningRanks] : k \in 0..MaxWinning }

\* A call initializeGame(players, hazards, teams, winningPositions) with n
\* players
InitializeGameCall(n, winningPositions) ==
    /\ InitializeGameWith(n, winningPositions)
    /\ call' = [fn |-> "initializeGame", count |-> n,
                winningPositions |-> winningPositions]
    /\ UNCHANGED <<hist, app, gen>>

NextInit ==
    \/ \E n \in 0..MaxPlayers, winningPositions \in WinningInputs :
          InitializeGameCall(n, winningPositions)
    \/ Reset /\ UNCHANGED <<hist, app, lib>>

SpecInit == Init /\ [][NextInit]_vars

\* C22: whatever the winningPositions argument, the winningPositions of the
\* state initializeGame creates contains 16, contains no value twice and is
\* in ascending order.
C22_WinningPositionsNormalised ==
    [][\A n \in 0..MaxPlayers, winningPositions \in WinningInputs :
          (InitializeGameCall(n, winningPositions) /\ ~threw') =>
              LET final == state'.winningPositions
              IN  /\ Includes(final, 16)
                  /\ \A i, j \in 1..Len(final) : i # j => final[i] # final[j]
                  /\ \A i, j \in 1..Len(final) : i < j => final[i] <= final[j]
      ]_vars

----------------------------------------------------------------------------
(* SpecTimer: the game of SpecRoll with the countdown of the dice roll     *)

MaxTimerRound == 2  \* rolls are requested while currentRound < MaxTimerRound

\* Positions the two players are on when the exploration starts
TimerStartPositions == {46, 96}

NextTimer ==
    \/ RoundBelow(MaxTimerRound) /\ OnRollDice
    \/ \E d \in DiceSeen : ResumeAfterDelay(d)
    \/ ResumeAfterMoveAnimation
    \/ ResumeAfterSpecialAnimation
    \/ OnAcceptLadder
    \/ OnDeclineLadder
    \/ LadderTimerTick
    \/ ResumeAfterCelebration
    \/ \E id \in PlayerIds(state) : OnTargetSelected(id)
    \/ DiceRollTimerTick

InitTimer ==
    /\ \E p1, p2 \in TimerStartPositions :
          state = [createInitialGameState(StorePlayers(MinPlayers), FIXED_MAP_CONFIG,
                                       DefaultWinningPositions)
                      EXCEPT !.isGameStarted = TRUE,
                             !.players[1].position = p1,
                             !.players[2].position = p2]
    /\ threw = FALSE
    /\ run = << >>
    /\ rolled = {}
    /\ AppInit

SpecTimer == InitTimer /\ [][NextTimer]_vars

\* The fields of the component the countdown of the dice roll is kept in
TimerFields == {"diceRollCountdown", "diceRollTimeExpired", "diceRollTimerInterval"}

----------------------------------------------------------------------------
(* SpecMisuse: the store operations, each call recorded with its arguments *)

MaxMisuseRound == 2     \* nextTurn is explored while currentRound < MaxMisuseRound

\* The call a step makes: its operation, its player id argument (Null when
\* it has none), the id of its hazard argument ("" when it has none) and
\* its number argument (0 when it has none)
Recorded(fn, id, special, value) ==
    /\ call' = [fn |-> fn, id |-> id, special |-> special, value |-> value]
    /\ UNCHANGED <<hist, app, gen>>

NextMisuse ==
    \/ \E n \in 1..MinPlayers :
          InitializeGame(n) /\ Recorded("initializeGame", Null, "", Num(n))
    \/ Reset /\ Recorded("reset", Null, "", Num(0))
    \/ \E id \in PlayerIdInputs, steps \in StepValues :
          MovePlayer(id, steps) /\ Recorded("movePlayer", id, "", Num(steps))
    \/ \E id \in PlayerIdInputs, special \in HazardInputs :
          ApplySpecialMove(id, special) /\ Recorded("applySpecialMove", id, special.id, Num(0))
    \/ RoundBelow(MaxMisuseRound) /\ NextTurn /\ Recorded("nextTurn", Null, "", Num(0))
    \/ \E id \in PlayerIdInputs :
          MarkPlayerFinished(id) /\ Recorded("markPlayerFinished", id, "", Num(0))
    \/ \E id \in PlayerIdInputs :
          SetSelectedTarget(id) /\ Recorded("setSelectedTarget", id, "", Num(0))
    \/ \E v \in ConfigInputs :
          UpdateDiceConfig(v) /\ Recorded("updateDiceConfig", Null, "", v)
    \/ \E v \in ConfigInputs :
          UpdateDiceConfigPending(v) /\ Recorded("updateDiceConfigPending", Null, "", v)
    \/ ApplyPendingDiceConfig /\ Recorded("applyPendingDiceConfig", Null, "", Num(0))
    \/ \E id \in ShowTokenInputs :
          SetShowTokenForPlayer(id) /\ Recorded("setShowTokenForPlayer", id, "", Num(0))

SpecMisuse == Init /\ [][NextMisuse]_vars

\* The operations that change the state of an initialized store
MutatingOps ==
    { "movePlayer", "applySpecialMove", "nextTurn", "markPlayerFinished",
      "setSelectedTarget", "updateDiceConfig", "updateDiceConfigPending",
      "applyPendingDiceConfig", "setShowTokenForPlayer" }

\* Those of them that take a player id
PlayerOps ==
    { "movePlayer", "applySpecialMove", "markPlayerFinished",
      "setSelectedTarget", "setShowTokenForPlayer" }

\* The call c names a player the store s does not have
UnknownPlayerCall(c, s) ==
    /\ c.fn \in PlayerOps
    /\ c.id # Null
    /\ c.id \notin PlayerIds(s)

\* C25: a mutating operation called on a store that is not initialized, and
\* movePlayer, applySpecialMove, markPlayerFinished, setSelectedTarget and
\* setShowTokenForPlayer called with the id of no player, throw and leave the
\* current state as it was.
C25_MisuseThrows ==
    [][(/\ call'.fn \in MutatingOps
        /\ (state = NoState \/ UnknownPlayerCall(call', state)))
          => (threw' /\ state' = state)
      ]_vars

\* A call with the id of no player has thrown on a store that holds a game
\* in which a player has moved
C25_Witness ==
    /\ call # NoCall
    /\ state # NoState
    /\ UnknownPlayerCall(call, state)
    /\ call.fn = "applySpecialMove"
    /\ threw
    /\ \E i \in 1..Len(state.players) : state.players[i].position > 0

\* A mutating operation has thrown on a store that is not initialized
C25_WitnessUninitialized ==
    /\ call # NoCall
    /\ call.fn = "setShowTokenForPlayer"
    /\ call.id = Null
    /\ state = NoState
    /\ threw

\* The number is no integer or is below 1
InvalidMaxPoints(number) == ~number.whole \/ number.v < 1

\* C26: updateDiceConfig and updateDiceConfigPending called with a number
\* that is no integer or is below 1 throw and leave the state as it was; in
\* every reachable state maxPoints is at least 1 and pendingMaxPoints is null
\* or at least 1.  (The state holds the integer a validated argument is, so
\* that both are integers is a matter of the encoding.)
C26_DiceConfigValidated ==
    /\ [](state # NoState =>
            /\ state.diceConfig.maxPoints >= 1
            /\ \/ state.diceConfig.pendingMaxPoints = Null
               \/ state.diceConfig.pendingMaxPoints >= 1)
    /\ [][(/\ call'.fn \in {"updateDiceConfig", "updateDiceConfigPending"}
           /\ InvalidMaxPoints(call'.value))
             => (threw' /\ state' = state)
         ]_vars

\* updateDiceConfigPending(2.5) has thrown on a game whose configuration was
\* changed before and has a value pending
C26_Witness ==
    /\ call # NoCall
    /\ call.fn = "updateDiceConfigPending"
    /\ call.value = Half(2)
    /\ threw
    /\ state # NoState
    /\ state.diceConfig = [maxPoints |-> 6, pendingMaxPoints |-> 6]

----------------------------------------------------------------------------
(* LeaderboardComponent.calculateLeaderboard *)

\* Mutant: of two finished players the one that finished later comes first
LeaderboardCompare_LatestFirst(a, b) ==
    IF a.isFinished /\ b.isFinished THEN b.finishTime - a.finishTime
    ELSE IF a.isFinished /\ ~b.isFinished THEN -1
    ELSE IF ~a.isFinished /\ b.isFinished THEN 1
    ELSE b.position - a.position

\* The comparator handed to entries.sort: negative when a comes first.  A
\* finishTime that is not set counts as time 0, which Null is.
LeaderboardCompare(a, b) ==
    IF a.isFinished /\ b.isFinished THEN a.finishTime - b.finishTime
    ELSE IF a.isFinished /\ ~b.isFinished THEN -1
    ELSE IF ~a.isFinished /\ b.isFinished THEN 1
    ELSE b.position - a.position

\* The rank calculateLeaderboard gives the i-th player: its place after the
\* sort, which is stable (entries that compare equal keep their order)
LeaderboardRank(players, i) ==
    1 + Cardinality({ j \in 1..Len(players) :
                        \/ LeaderboardCompare(players[j], players[i]) < 0
                        \/ /\ LeaderboardCompare(players[j], players[i]) = 0
                           /\ j < i })

\* calculateLeaderboard(players): the entries in the order of their ranks
calculateLeaderboard(players) ==
    [ r \in 1..Len(players) |->
        LET i == CHOOSE i \in 1..Len(players) : LeaderboardRank(players, i) = r
        IN  [ rank |-> r,
              playerId |-> players[i].id,
              currentPosition |-> players[i].position,
              isFinished |-> players[i].isFinished,
              finishTime |-> players[i].finishTime ] ]

\* C27: the rank shown when a player finishes is 1 for the first finisher
\* and one more for each later finisher, no two players are shown the same
\* rank, and in every later state the leaderboard has the player at the place
\* of that rank.
C27_RankFollowsFinishOrder ==
    state # NoState =>
        LET shown == comp.finishRanks
            leaderboard == calculateLeaderboard(state.players)
        IN  /\ \A k \in 1..Len(shown) : shown[k].rank = k
            /\ \A k, m \in 1..Len(shown) :
                  k # m => shown[k].playerId # shown[m].playerId
            /\ \A k \in 1..Len(shown) :
                  /\ leaderboard[shown[k].rank].playerId = shown[k].playerId
                  /\ leaderboard[shown[k].rank].isFinished

\* Both players have finished, the second player first, and the roll of the
\* last finish has come to its end
C27_Witness ==
    /\ state # NoState
    /\ Len(comp.finishRanks) = 2
    /\ comp.finishRanks[1].playerId = 2
    /\ comp.finishPlayerRank = 2
    /\ comp.pc = "idle"

----------------------------------------------------------------------------
(* createPlayers on lists of names *)

MaxNames == 3
MaxNameLen == 2
Chars == {" ", "a", "A", "b"}

NameInputs == UNION { [1..k -> Chars] : k \in 0..MaxNameLen }
NamesInputs == UNION { [1..n -> NameInputs] : n \in MinPlayers..MaxNames }

\* A call createPlayers(names); the function keeps nothing between two calls,
\* so one call is followed from the start
CreatePlayersCall(names) ==
    /\ call = NoCall
    /\ call' = [fn |-> "createPlayers", names |-> names,
                result |-> createPlayers(names)]
    /\ UNCHANGED <<state, threw, hist, app, gen>>

NextPlayers == \E names \in NamesInputs : CreatePlayersCall(names)

SpecPlayers == Init /\ [][NextPlayers]_vars

\* A name without its leading and trailing blanks
RECURSIVE Stripped(_)
Stripped(name) ==
    IF name = << >> THEN name
    ELSE IF name[1] = " " THEN Stripped(SubSeq(name, 2, Len(name)))
    ELSE IF name[Len(name)] = " " THEN Stripped(SubSeq(name, 1, Len(name) - 1))
    ELSE name

\* Two names are the same name, ignoring case and surrounding whitespace
SameName(a, b) ==
    LET s == Stripped(a)
        t == Stripped(b)
    IN  /\ Len(s) = Len(t)
        /\ \A i \in 1..Len(s) :
              \/ s[i] = t[i]
              \/ {s[i], t[i]} = {"a", "A"}

EmptyName(name) == Stripped(name) = << >>

BadNames(names) ==
    \/ \E i \in 1..Len(names) : EmptyName(names[i])
    \/ \E i, j \in 1..Len(names) : i # j /\ SameName(names[i], names[j])

\* C28: on a list of n >= 2 names createPlayers either returns n players
\* with non-empty trimmed names, pairwise distinct ignoring case and
\* surrounding whitespace, turnOrder 0..n-1 in input order, position 0 and
\* isFinished false, or raises InvalidPlayerNameError or
\* DuplicatePlayerNameError, and it raises exactly when some name is empty or
\* duplicated
C28_CreatePlayersContract ==
    call.fn = "createPlayers" =>
        LET names == call.names
            n == Len(names)
            result == call.result
        IN  IF result.error = ""
            THEN /\ ~BadNames(names)
                 /\ Len(result.value) = n
                 /\ \A i \in 1..n :
                       /\ result.value[i].name = Stripped(names[i])
                       /\ ~EmptyName(result.value[i].name)
                       /\ result.value[i].turnOrder = i - 1
                       /\ result.value[i].position = 0
                       /\ result.value[i].isFinished = FALSE
                 /\ \A i, j \in 1..n :
                       i # j => ~SameName(result.value[i].name,
                                          result.value[j].name)
            ELSE /\ BadNames(names)
                 /\ result.error \in {"InvalidPlayerNameError",
                                      "DuplicatePlayerNameError"}

\* Three names, one in upper case and one with surrounding blanks, accepted
C28_Witness ==
    /\ call.fn = "createPlayers"
    /\ call.names = << <<"A">>, <<" ", "b">>, <<"a", "b">> >>
    /\ call.result.error = ""
    /\ Len(call.result.value) = 3

\* A list whose second name repeats the first in another case is refused
C28_WitnessDuplicate ==
    /\ call.fn = "createPlayers"
    /\ call.names = << <<"a">>, <<"A", " ">> >>
    /\ call.result.error = "DuplicatePlayerNameError"

----------------------------------------------------------------------------
(* generateBoardLayout and the lookups on its result *)

BOARD_SIZE == 100
GRID_SIZE == 10

\* Mutant: the zigzag starts right-to-left on row 0
BoardCellOf_OddRowsLeftToRight(cellNumber) ==
    LET row == (cellNumber - 1) \div GRID_SIZE
        positionInRow == (cellNumber - 1) % GRID_SIZE
        x == IF row % 2 = 1 THEN positionInRow
             ELSE GRID_SIZE - 1 - positionInRow
    IN  [number |-> cellNumber, x |-> x, y |-> row]

\* The cell one iteration of the loop pushes
BoardCellOf(cellNumber) ==
    LET row == (cellNumber - 1) \div GRID_SIZE
        positionInRow == (cellNumber - 1) % GRID_SIZE
        x == IF row % 2 = 0 THEN positionInRow
             ELSE GRID_SIZE - 1 - positionInRow
    IN  [number |-> cellNumber, x |-> x, y |-> row]

\* for (let cellNumber = ...; cellNumber <= BOARD_SIZE; cellNumber++)
RECURSIVE BoardLoop(_, _)
BoardLoop(cellNumber, cells) ==
    IF cellNumber <= BOARD_SIZE
    THEN BoardLoop(cellNumber + 1, Append(cells, BoardCellOf(cellNumber)))
    ELSE cells

generateBoardLayout ==
    LET cells == BoardLoop(1, << >>)
    IN  IF Len(cells) # BOARD_SIZE THEN Failed("InvalidBoardSizeError")
        ELSE Constructed(cells)

\* Array.prototype.find: the first element that matches, or undefined
Undefined == [undefined |-> TRUE]

getCellByNumber(cellNumber, boardLayout) ==
    LET found == { i \in 1..Len(boardLayout) :
                      boardLayout[i].number = cellNumber }
    IN  IF found = {} THEN Undefined
        ELSE boardLayout[CHOOSE i \in found : \A j \in found : i <= j]

getCellByCoordinates(x, y, boardLayout) ==
    LET found == { i \in 1..Len(boardLayout) :
                      boardLayout[i].x = x /\ boardLayout[i].y = y }
    IN  IF found = {} THEN Undefined
        ELSE boardLayout[CHOOSE i \in found : \A j \in found : i <= j]

CellNumberInputs == 0..(BOARD_SIZE + 1)
CoordinateInputs == (0 - 1)..GRID_SIZE

GenerateBoardLayoutCall ==
    /\ call = NoCall
    /\ call' = [fn |-> "generateBoardLayout", result |-> generateBoardLayout]
    /\ UNCHANGED <<state, threw, hist, app, gen>>

\* The lookups, on the layout generateBoardLayout returns
GetCellByNumberCall(cellNumber) ==
    /\ call = NoCall
    /\ generateBoardLayout.error = ""
    /\ call' = [fn |-> "getCellByNumber", cellNumber |-> cellNumber,
                result |-> getCellByNumber(cellNumber,
                                           generateBoardLayout.value)]
    /\ UNCHANGED <<state, threw, hist, app, gen>>

GetCellByCoordinatesCall(x, y) ==
    /\ call = NoCall
    /\ generateBoardLayout.error = ""
    /\ call' = [fn |-> "getCellByCoordinates", x |-> x, y |-> y,
                result |-> getCellByCoordinates(x, y,
                                                generateBoardLayout.value)]
    /\ UNCHANGED <<state, threw, hist, app, gen>>

NextBoard ==
    \/ GenerateBoardLayoutCall
    \/ \E cellNumber \in CellNumberInputs : GetCellByNumberCall(cellNumber)
    \/ \E x, y \in CoordinateInputs : GetCellByCoordinatesCall(x, y)

SpecBoard == Init /\ [][NextBoard]_vars

----------------------------------------------------------------------------
(* createSnake and createLadder on explored arguments *)

PositionInputs == {1, 2, 50, 99, 100}

ExistingInputs ==
    { << >>,
      << [id |-> "s1", type |-> "snake", startPosition |-> 99,
          endPosition |-> 2] >>,
      << [id |-> "s1", type |-> "snake", startPosition |-> 99,
          endPosition |-> 2],
         [id |-> "l1", type |-> "ladder", startPosition |-> 2,
          endPosition |-> 50] >> }

\* The factories keep nothing between two calls, so one call is followed
\* from the start
CreateSnakeCall(startPosition, endPosition, existingElements) ==
    /\ call = NoCall
    /\ call' = [fn |-> "createSnake", startPosition |-> startPosition,
                endPosition |-> endPosition,
                existingElements |-> existingElements,
                result |-> createSnake(startPosition, endPosition,
                                       existingElements)]
    /\ UNCHANGED <<state, threw, hist, app, gen>>

CreateLadderCall(startPosition, endPosition, existingElements) ==
    /\ call = NoCall
    /\ call' = [fn |-> "createLadder", startPosition |-> startPosition,
                endPosition |-> endPosition,
                existingElements |-> existingElements,
                result |-> createLadder(startPosition, endPosition,
                                        existingElements)]
    /\ UNCHANGED <<state, threw, hist, app, gen>>

NextFactory ==
    \/ \E startPosition, endPosition \in PositionInputs,
          existingElements \in ExistingInputs :
          CreateSnakeCall(startPosition, endPosition, existingElements)
    \/ \E startPosition, endPosition \in PositionInputs,
          existingElements \in ExistingInputs :
          CreateLadderCall(startPosition, endPosition, existingElements)

SpecFactory == Init /\ [][NextFactory]_vars

FactoryCall == call.fn \in {"createSnake", "createLadder"}

ValidGeometry ==
    IF call.fn = "createSnake" THEN call.startPosition > call.endPosition
    ELSE call.startPosition < call.endPosition

FreshStart ==
    \A i \in 1..Len(call.existingElements) :
        call.existingElements[i].startPosition # call.startPosition

FactoryErrors ==
    {"InvalidSnakeError", "InvalidLadderError", "DuplicateStartPositionError"}

\* C30: createSnake and createLadder construct a hazard only if its geometry
\* is valid, its start is the start of no hazard of the supplied collection,
\* and its start and end both lie within 2..99; otherwise they raise a named
\* validation error.
C30_FactoriesValidate ==
    FactoryCall =>
        IF call.result.error = ""
        THEN /\ ValidGeometry
             /\ FreshStart
             /\ call.startPosition \in 2..99
             /\ call.endPosition \in 2..99
        ELSE call.result.error \in FactoryErrors

\* The part of C30 without the range 2..99: a hazard is constructed exactly
\* when its geometry is valid and its start is fresh, with the arguments as
\* its positions, and a named error is raised otherwise.
FactoriesCheckGeometryAndStart ==
    FactoryCall =>
        IF call.result.error = ""
        THEN /\ ValidGeometry
             /\ FreshStart
             /\ call.result.value.startPosition = call.startPosition
             /\ call.result.value.endPosition = call.endPosition
             /\ call.result.value.type =
                   (IF call.fn = "createSnake" THEN "snake" ELSE "ladder")
        ELSE /\ call.result.error \in FactoryErrors
             /\ ~(ValidGeometry /\ FreshStart)

\* A ladder from cell 1 to cell 100 is constructed
C30_HazardOnReservedCell ==
    /\ call.fn = "createLadder"
    /\ call.startPosition = 1
    /\ call.endPosition = 100
    /\ call.result.error = ""

----------------------------------------------------------------------------
(* SpecDice: the dice configuration calls, nextTurn and rollDice on a game *)
(* of two, with two valid values of maxPoints                             *)

MaxDiceRound == 2      \* nextTurn is explored while currentRound < MaxDiceRound

DiceConfigInputs == {Num(0), Half(2), Num(3), Num(6)}

\* A store call of SpecDice, recorded with its number argument
DiceRecorded(fn, value) ==
    /\ call' = [fn |-> fn, value |-> value]
    /\ UNCHANGED <<hist, app, gen>>

\* rollDice(): throws on an uninitialized store, and returns one of its
\* results otherwise; recorded with the call before it
RollDice ==
    /\ IF state = NoState
       THEN /\ threw' = TRUE
            /\ call' = [fn |-> "rollDice", value |-> Num(0), after |-> call,
                        afterThrew |-> threw]
       ELSE /\ threw' = FALSE
            /\ \E result \in RollDiceResults(state) :
                  call' = [fn |-> "rollDice", value |-> Num(result),
                           after |-> call, afterThrew |-> threw]
    /\ call.fn # "rollDice"
    /\ state' = state
    /\ UNCHANGED <<hist, app, gen>>

NextDice ==
    \/ InitializeGame(MinPlayers) /\ DiceRecorded("initializeGame", Num(MinPlayers))
    \/ RoundBelow(MaxDiceRound) /\ NextTurn /\ DiceRecorded("nextTurn", Num(0))
    \/ \E v \in DiceConfigInputs :
          UpdateDiceConfig(v) /\ DiceRecorded("updateDiceConfig", v)
    \/ \E v \in DiceConfigInputs :
          UpdateDiceConfigPending(v) /\ DiceRecorded("updateDiceConfigPending", v)
    \/ RollDice

SpecDice == Init /\ [][NextDice]_vars

\* C31: updateDiceConfig(v) with a valid v on a game sets maxPoints to v in
\* that transition and changes nothing else (pendingMaxPoints keeps its
\* value); the rollDice that follows it returns an integer of 1..v; and the
\* nextTurn that increments currentRound still applies the staged value.
C31_ImmediateConfigChange ==
    /\ [](( /\ call.fn = "rollDice"
            /\ call.after.fn = "updateDiceConfig"
            /\ ~call.afterThrew )
          => call.value.v \in 1..call.after.value.v)
    /\ [][ /\ \A v \in DiceConfigInputs :
                ( /\ state # NoState
                  /\ ~InvalidMaxPoints(v)
                  /\ UpdateDiceConfig(v)
                  /\ call'.fn = "updateDiceConfig" )
                => /\ ~threw'
                   /\ state' = [state EXCEPT !.diceConfig.maxPoints = v.v]
                   /\ state'.diceConfig.pendingMaxPoints =
                         state.diceConfig.pendingMaxPoints
           /\ ( /\ call'.fn = "nextTurn"
                /\ state # NoState
                /\ state.diceConfig.pendingMaxPoints # Null
                /\ state'.currentRound = state.currentRound + 1 )
              => state'.diceConfig =
                    [maxPoints |-> state.diceConfig.pendingMaxPoints,
                     pendingMaxPoints |-> Null]
         ]_vars

\* With 6 staged, updateDiceConfig(3) was called and the roll that followed
\* returned 3
C31_Witness ==
    /\ call.fn = "rollDice"
    /\ call.after = [fn |-> "updateDiceConfig", value |-> Num(3)]
    /\ ~call.afterThrew
    /\ call.value = Num(3)
    /\ state.diceConfig = [maxPoints |-> 3, pendingMaxPoints |-> 6]

\* The value staged before an immediate change is in force after the round
\* boundary
C31_WitnessStagedApplied ==
    /\ call.fn = "rollDice"
    /\ call.after.fn = "nextTurn"
    /\ call.value = Num(6)
    /\ state.currentRound = 2
    /\ state.diceConfig = [maxPoints |-> 6, pendingMaxPoints |-> Null]

----------------------------------------------------------------------------
(* SpecOffline: the game of SpecTimer played, reloaded and reset on a      *)
(* storage that checkStorageAvailability found unavailable.  setItem can   *)
(* throw (quota, private mode) while the key still holds an older record,  *)
(* so the key holds nothing, a valid record or an unparsable one.          *)

MaxOfflineRound == 2  \* rolls are requested while currentRound < MaxOfflineRound

OfflineStartPositions == {46, 96}

\* The states the exploration starts from
OfflineStart(p1, p2) ==
    [createInitialGameState(StorePlayers(MinPlayers), FIXED_MAP_CONFIG,
                            DefaultWinningPositions)
        EXCEPT !.isGameStarted = TRUE,
               !.players[1].position = p1,
               !.players[2].position = p2]

\* What the key holds
OfflineItems ==
    LET saved == [text |-> "json",
                  data |-> serializeState(CurrentStateObject(OfflineStart(0, 0)))]
    IN  { NoRecord, saved, Damaged(saved, "unparsable") }

InitOffline ==
    /\ \E p1, p2 \in OfflineStartPositions : state = OfflineStart(p1, p2)
    /\ threw = FALSE
    /\ run = << >>
    /\ rolled = {}
    /\ comp = IdleComp
    /\ \E item \in OfflineItems :
          stored = [isStorageAvailable |-> FALSE, item |-> item]
    /\ loaded = NotLoaded
    /\ LibInit

NextOffline ==
    \/ RoundBelow(MaxOfflineRound) /\ OnRollDice
    \/ \E d \in DiceSeen : ResumeAfterDelay(d)
    \/ ResumeAfterMoveAnimation
    \/ ResumeAfterSpecialAnimation
    \/ OnAcceptLadder
    \/ OnDeclineLadder
    \/ LadderTimerTick
    \/ ResumeAfterCelebration
    \/ \E id \in PlayerIds(state) : OnTargetSelected(id)
    \/ ConfirmReset
    \/ PageLoad

SpecOffline == InitOffline /\ [][NextOffline]_vars

\* The storage of the same run with storage available, holding the same
\* record or none
Online(st) ==
    { [isStorageAvailable |-> TRUE, item |-> item] : item \in {st.item, NoRecord} }

\* The step leaves the game (store state, component, error) as the outcome o
\* does
SameGameAs(o) ==
    /\ state' = o.state
    /\ comp' = o.comp
    /\ threw' = o.threw

C32_WitnessLoad ==
    /\ ~stored.isStorageAvailable
    /\ stored.item = [text |-> "{"]
    /\ loaded = ReturnedNull
    /\ state = NoState

----------------------------------------------------------------------------
(* The game once every player has finished *)

AllFinished(s) ==
    /\ s # NoState
    /\ \A i \in 1..Len(s.players) : s.players[i].isFinished

\* C33: once every player is finished and the roll that finished the last
\* one has ended, no roll can be requested (canRollDice is false) and the
\* countdown of the dice roll does not run, until the game is reset.
C33_NoRollAfterGameOver ==
    (AllFinished(state) /\ comp.pc = "idle" /\ ~comp.isRolling) =>
        /\ ~canRollDice(comp, state)
        /\ ~comp.diceRollTimerInterval

\* The part of C33 that holds: at the await of the last finish celebration
\* and while the roll is in flight no roll can be requested
NoRollDuringLastCelebration ==
    (AllFinished(state) /\ comp.pc = "celebrate") => ~canRollDice(comp, state)

\* Every player has finished, the roll has ended, and a roll can be
\* requested with the countdown running
C33_RollAfterGameOver ==
    /\ AllFinished(state)
    /\ comp.pc = "idle"
    /\ canRollDice(comp, state)
    /\ comp.diceRollTimerInterval
    /\ ~comp.isGameFinished

----------------------------------------------------------------------------
(* SpecReload: the game of SpecRoll with the leaderboard's target          *)
(* selection, the dice configuration modal, and the page reloaded or the   *)
(* browser stopped at any point of a roll                                  *)

MaxReloadRound == 2  \* rolls are requested while currentRound < MaxReloadRound

ReloadStartPositions == {46, 96}

\* What the user types into the configuration modal
ModalInputs == {Num(6), Half(2)}

\* LeaderboardComponent.selectTarget(playerId) with the entries of the last
\* published state: nothing once the dice has been rolled or for a finished
\* or unknown player; else setSelectedTarget, the targetSelected event
\* (onTargetSelected) and setShowTokenForPlayer
selectTarget(s, st, c, playerId) ==
    IF s = NoState \/ s.lastDiceResult # Null
    THEN Outcome(s, st, c, threw)
    ELSE LET idx == FindIndexById(s.players, playerId)
         IN  IF idx = -1 \/ s.players[idx + 1].isFinished
             THEN Outcome(s, st, c, threw)
             ELSE LET selected == setSelectedTargetUpdater(s, playerId)
                      o == TargetSelected(selected.state, st,
                                          updateFromState(c, selected.state),
                                          playerId)
                      shown == setShowTokenForPlayerUpdater(o.state, playerId)
                  IN  IF ~selected.ok THEN Outcome(s, st, c, TRUE)
                      ELSE IF ~shown.ok THEN Outcome(o.state, o.stored, o.comp, TRUE)
                      ELSE Outcome(shown.state, o.stored,
                                   updateFromState(o.comp, shown.state), o.threw)

SelectTarget(playerId) == Leaves(selectTarget(state, stored, comp, playerId))

\* isValidModalConfig() with configMaxPoints = maxPoints, against the dice
\* configuration of the last published state
isValidModalConfig(s, maxPoints) ==
    /\ maxPoints.v # 0
    /\ Number_isInteger(maxPoints)
    /\ maxPoints.v >= 1
    /\ ~(maxPoints.v = s.diceConfig.maxPoints /\ s.diceConfig.pendingMaxPoints = Null)
    /\ ~(s.diceConfig.pendingMaxPoints # Null /\ maxPoints.v = s.diceConfig.pendingMaxPoints)

\* applyConfigFromModal(): the value is staged and the state is saved,
\* whether or not a roll is in flight
applyConfigFromModal(s, st, c, maxPoints) ==
    IF ~isValidModalConfig(s, maxPoints) THEN Outcome(s, st, c, threw)
    ELSE IF ~validateMaxPoints(maxPoints) THEN Outcome(s, st, c, TRUE)
    ELSE LET staged == updateDiceConfigPendingUpdater(s, maxPoints.v)
         IN  Outcome(staged.state,
                     saveGameState(st, CurrentStateObject(staged.state)),
                     updateFromState(c, staged.state), FALSE)

ApplyConfigFromModal(maxPoints) ==
    /\ state # NoState
    /\ Leaves(applyConfigFromModal(state, stored, comp, maxPoints))

\* The outcomes of the parts of onRollDice that can run next
RollResumptions ==
    (IF comp.pc = "delay"
     THEN { AfterDelay(state, stored, comp, d) :
                d \in { x \in DiceSeen :
                           state # NoState => x \in RollDiceResults(state) } }
     ELSE {})
    \cup (IF comp.pc = "animMove"
          THEN { AfterMoveAnimation(state, stored, comp) } ELSE {})
    \cup (IF comp.pc \in {"animSnake", "animLadder"}
          THEN { AfterSpecial(state, stored, comp) } ELSE {})
    \cup (IF comp.pc = "ladder"
          THEN { LadderChoice(state, stored, comp, climb) : climb \in BOOLEAN }
          ELSE {})
    \cup (IF comp.pc = "celebrate" /\ comp.finishModalTimeout
          THEN { AfterCelebration(state, stored, comp) } ELSE {})

\* The browser stops between the two saves at the end of onRollDice: the
\* storage keeps the first one, the store and the component are gone
StopBetweenSaves ==
    /\ \E o \in RollResumptions :
          /\ "firstSave" \in DOMAIN o
          /\ stored' = o.firstSave
    /\ state' = NoState
    /\ comp' = IdleComp
    /\ threw' = FALSE
    /\ UNCHANGED <<hist, loaded, lib>>

\* onRollDice() up to its first await, with the target selected at the
\* request kept on record
OnRollDiceCall ==
    IF ~canRollDice(comp, state)
    THEN UNCHANGED vars
    ELSE /\ comp' = RollRequested(comp)
         /\ call' = [fn |-> "onRollDice", selectedTarget |-> comp.selectedTarget]
         /\ UNCHANGED <<state, threw, stored, hist, loaded, gen>>

NextReload ==
    \/ RoundBelow(MaxReloadRound) /\ OnRollDiceCall
    \/ \E d \in DiceSeen : ResumeAfterDelay(d)
    \/ ResumeAfterMoveAnimation
    \/ ResumeAfterSpecialAnimation
    \/ OnAcceptLadder
    \/ OnDeclineLadder
    \/ ResumeAfterCelebration
    \/ \E id \in PlayerIds(state) : SelectTarget(id)
    \/ \E v \in ModalInputs : ApplyConfigFromModal(v)
    \/ StopBetweenSaves
    \/ PageLoad

InitReload ==
    /\ \E p1, p2 \in ReloadStartPositions :
          state = [createInitialGameState(StorePlayers(MinPlayers), FIXED_MAP_CONFIG,
                                       DefaultWinningPositions)
                      EXCEPT !.isGameStarted = TRUE,
                             !.players[1].position = p1,
                             !.players[2].position = p2]
    /\ threw = FALSE
    /\ run = << >>
    /\ rolled = {}
    /\ AppInit

SpecReload == InitReload /\ [][NextReload]_vars

\* The state restoreGameState publishes allows a roll to be started: some
\* player can be selected on the leaderboard and canRollDice is true then
CanStartARoll(s, st, c) ==
    \E id \in PlayerIds(s) :
        LET o == selectTarget(s, st, c, id)
        IN  canRollDice(o.comp, o.state)

\* C34: whenever restoreGameState restores a saved record of a started game
\* with a player who has not finished, whichever saveGameState call wrote
\* it, a target can be selected and a roll can then be requested.
C34_NoDeadlockAfterReload ==
    [][(PageLoad /\ loaded'.kind = "state"
           /\ state'.isGameStarted /\ ActiveIds(state') # {})
          => CanStartARoll(state', stored', comp')]_vars

\* The part of C34 that holds: a restored record whose lastDiceResult is
\* null allows a roll to be started
ReloadBeforeDiceAllowsRoll ==
    [][(PageLoad /\ loaded'.kind = "state"
           /\ state'.isGameStarted /\ ActiveIds(state') # {}
           /\ state'.lastDiceResult = Null)
          => CanStartARoll(state', stored', comp')]_vars

\* A record saved after the dice was rolled has been restored: a player has
\* not finished, no target is selected, and no player can be selected
C34_StuckAfterReload ==
    /\ loaded.kind = "state"
    /\ state # NoState
    /\ state.isGameStarted
    /\ ActiveIds(state) # {}
    /\ state.lastDiceResult # Null
    /\ state.selectedTargetId = Null
    /\ comp.pc = "idle"
    /\ ~canRollDice(comp, state)
    /\ ~CanStartARoll(state, stored, comp)

----------------------------------------------------------------------------
(* Finished players and the last cell *)

\* Every player on the last cell is finished and every finished player is
\* on the last cell
FinishedIffOnLastCell(s) ==
    \A i \in 1..Len(s.players) :
        (s.players[i].position = BoardEnd) <=> s.players[i].isFinished

\* The step is the last part of onRollDice, run to the second save
RollEnds ==
    /\ comp.isRolling
    /\ ~comp'.isRolling
    /\ state' # NoState
    /\ comp'.log # << >>
    /\ comp'.log[Len(comp'.log)].op = "saveGameState"

\* C35: when a roll sequence has run to its end (its nextTurn included),
\* every player's position is 100 if and only if the player is finished.
C35_FinishedIffOnLastCell ==
    [][RollEnds => FinishedIffOnLastCell(state')]_vars

\* A roll that moved a player onto 100 has ended after the finish
\* celebration: that player is finished, the other is not
C35_Witness ==
    /\ comp.pc = "idle"
    /\ ~comp.isRolling
    /\ ~threw
    /\ Len(comp.log) >= 4
    /\ comp.log[1].op = "movePlayer"
    /\ comp.log[2].op = "markPlayerFinished"
    /\ comp.log[Len(comp.log)].op = "saveGameState"
    /\ Cardinality(FinishedIds(state)) = 1
    /\ \E i \in 1..Len(state.players) : state.players[i].position # BoardEnd

----------------------------------------------------------------------------
(* Hazards whose end is the start of another hazard *)

\* Some hazard of the list ends where another one starts
Chained(elements) ==
    \E i, j \in 1..Len(elements) :
        i # j /\ elements[i].endPosition = elements[j].startPosition

\* C36: no hazard of the fixed table ends on the start of another hazard,
\* and no hazard of a list generateSnakesAndLadders returns does.
C36_HazardsNeverChained ==
    /\ ~Chained(FIXED_MAP_CONFIG)
    /\ (gen # NoGen /\ gen.pc = "return") => ~Chained(gen.elements)

\* The part of C36 that holds: the fixed table has no chain, and in a
\* returned list no hazard starts on the end of a hazard created before it
LaterStartsAvoidEarlierEnds ==
    /\ ~Chained(FIXED_MAP_CONFIG)
    /\ (gen # NoGen /\ gen.pc = "return") =>
          \A i, j \in 1..Len(gen.elements) :
              i < j => gen.elements[i].endPosition # gen.elements[j].startPosition

\* generateSnakesAndLadders has returned a list in which a hazard ends on
\* the start of a hazard created before it
C36_ChainGenerated ==
    /\ gen # NoGen
    /\ gen.pc = "return"
    /\ \E i, j \in 1..Len(gen.elements) :
          i < j /\ gen.elements[j].endPosition = gen.elements[i].startPosition

----------------------------------------------------------------------------
(* The selected target while a roll is in flight *)

\* The step is taken by the page that requested the roll in flight, and the
\* roll is still in flight after it
StaysInFlight ==
    /\ comp.isRolling
    /\ comp'.isRolling
    /\ state # NoState
    /\ state' # NoState

\* Ids of the players the step moves
Moved ==
    { state.players[i].id :
        i \in { j \in 1..Len(state.players) :
                  /\ state' # NoState
                  /\ j <= Len(state'.players)
                  /\ state'.players[j].position # state.players[j].position } }

\* C37: from the roll request until isRolling is cleared the selected target
\* does not change, and every player a step of the roll moves is the player
\* who was selected when the roll was requested.
C37_TargetFixedInFlight ==
    /\ [][StaysInFlight => state'.selectedTargetId = state.selectedTargetId]_vars
    /\ [][(comp.isRolling /\ state # NoState /\ call.fn = "onRollDice")
             => Moved \subseteq {call.selectedTarget}]_vars

\* The part of C37 that holds: once the dice result is recorded the selected
\* target does not change while the roll is in flight, and every player the
\* roll moves is the target onRollDice read after its delay
TargetFixedAfterDice ==
    /\ [][(StaysInFlight /\ state.lastDiceResult # Null)
             => state'.selectedTargetId = state.selectedTargetId]_vars
    /\ [][(comp.isRolling /\ state # NoState /\ comp.targetPlayer # Null)
             => Moved \subseteq {comp.targetPlayer}]_vars

\* A roll requested with one player selected has moved the other one
C37_OtherPlayerMoved ==
    /\ comp.isRolling
    /\ comp.pc = "animMove"
    /\ call.fn = "onRollDice"
    /\ comp.targetPlayer # Null
    /\ comp.targetPlayer # call.selectedTarget
    /\ PositionOf(state, comp.targetPlayer) = comp.fromPosition + comp.diceResult

----------------------------------------------------------------------------
(* SpecFrame: the store calls on an initialized game whose state carries   *)
(* every field of GameState and Player, the ones no call reads included    *)

MaxFrameRound == 2  \* nextTurn is explored while currentRound < MaxFrameRound

\* Positions the first player is on when the exploration starts
FrameStartPositions == {50}

\* maxPoints arguments explored
FrameConfigInputs == {Half(2), Num(6)}

\* The state initializeGame publishes for createPlayers' output on n names:
\* createInitialGameState with gameId, createdAt, teams and mapType, the
\* players with their names
FrameStart(n) ==
    LET players == createPlayers(ModelNames(n)).value
        base == createInitialGameState(StorePlayers(n), ModelHazards,
                                       DefaultWinningPositions)
    IN  [gameId |-> "uuid", createdAt |-> Date(0), teams |-> << >>,
         mapType |-> "random"]
        @@ [base EXCEPT !.players =
                [i \in 1..n |-> [name |-> players[i].name] @@ base.players[i]]]

InitFrame ==
    /\ \E n \in MinPlayers..MaxPlayers, p \in FrameStartPositions :
          state = [FrameStart(n) EXCEPT !.players[1].position = p]
    /\ threw = FALSE
    /\ run = << >>
    /\ rolled = {}
    /\ AppInit

NextFrame ==
    \/ \E id \in PlayerIdInputs, steps \in StepValues :
          MovePlayer(id, steps) /\ UNCHANGED <<hist, app, lib>>
    \/ \E id \in PlayerIdInputs, special \in HazardInputs :
          ApplySpecialMove(id, special) /\ UNCHANGED <<hist, app, lib>>
    \/ RoundBelow(MaxFrameRound) /\ NextTurn /\ UNCHANGED <<hist, app, lib>>
    \/ \E id \in PlayerIdInputs : MarkPlayerFinished(id) /\ UNCHANGED <<hist, app, lib>>
    \/ \E id \in PlayerIdInputs : SetSelectedTarget(id) /\ UNCHANGED <<hist, app, lib>>
    \/ \E v \in FrameConfigInputs : UpdateDiceConfig(v) /\ UNCHANGED <<hist, app, lib>>
    \/ \E v \in FrameConfigInputs : UpdateDiceConfigPending(v) /\ UNCHANGED <<hist, app, lib>>
    \/ \E id \in ShowTokenInputs :
          SetShowTokenForPlayer(id) /\ UNCHANGED <<hist, app, lib>>

SpecFrame == InitFrame /\ [][NextFrame]_vars

\* What no call after initializeGame may change
Fixed(s) ==
    [ gameId |-> s.gameId,
      createdAt |-> s.createdAt,
      snakesAndLadders |-> s.snakesAndLadders,
      teams |-> s.teams,
      mapType |-> s.mapType,
      winningPositions |-> s.winningPositions,
      players |-> [ i \in 1..Len(s.players) |->
                      [ id |-> s.players[i].id,
                        name |-> s.players[i].name,
                        turnOrder |-> s.players[i].turnOrder ] ] ]

\* The step writes no field of the state but players, and the players other
\* than playerId are after it what they were before it.  finishTime is the rank of the Date among the stamps, so for
\* it the same means: set or not as before, and in the same order.
OthersUntouched(playerId) ==
    /\ [state' EXCEPT !.players = state.players] = state
    /\ Len(state'.players) = Len(state.players)
    /\ \A i \in 1..Len(state.players) :
          state.players[i].id # playerId =>
              /\ [state'.players[i] EXCEPT !.finishTime = Null]
                    = [state.players[i] EXCEPT !.finishTime = Null]
              /\ (state'.players[i].finishTime = Null)
                    <=> (state.players[i].finishTime = Null)
              /\ \A j \in 1..Len(state.players) :
                    state.players[j].id # playerId =>
                        ((state'.players[i].finishTime < state'.players[j].finishTime)
                            <=> (state.players[i].finishTime < state.players[j].finishTime))

\* C38: movePlayer, applySpecialMove, nextTurn, markPlayerFinished,
\* setSelectedTarget, updateDiceConfig, updateDiceConfigPending and
\* setShowTokenForPlayer leave gameId, createdAt, the hazard list, teams,
\* mapType, winningPositions, the number and order of the players and every
\* player's id, name and turnOrder as they are; movePlayer, applySpecialMove
\* and markPlayerFinished change no player but the one named.
C38_StoreCallsKeepIdentity ==
    [][/\ Fixed(state') = Fixed(state)
       /\ state'.players # state.players =>
             \A id \in PlayerIdInputs :
                 /\ (\E steps \in StepValues : MovePlayer(id, steps))
                       => OthersUntouched(id)
                 /\ (\E special \in HazardInputs : ApplySpecialMove(id, special))
                       => OthersUntouched(id)
                 /\ MarkPlayerFinished(id) => OthersUntouched(id)
      ]_vars

\* A game of three in which a player has been moved onto the ladder, taken
\* up it and a second time onto 100, marked finished, the turn has passed,
\* a target is selected and a dice maximum is staged: the identity fields
\* are those of the initial state
C38_Witness ==
    /\ Len(state.players) = 3
    /\ Fixed(state) = Fixed(FrameStart(3))
    /\ \E i \in 1..3 : state.players[i].isFinished
    /\ \E i \in 1..3 : state.players[i].position = 67
    /\ state.currentDiceRollerId # FrameStart(3).currentDiceRollerId
    /\ state.selectedTargetId # Null
    /\ state.diceConfig.pendingMaxPoints = 6
    /\ state.showTokenForPlayerId # Null

----------------------------------------------------------------------------
(* SpecLoad: SpecStorage with records that are well-formed but describe no *)
(* game the store can be in                                                *)

\* Well-formed records of no valid game
Edits ==
    { "one player", "no player", "position 150", "position -1",
      "unknown roller", "maxPoints 0" }

\* The item a saved one becomes when it is edited
Edited(item, edit) ==
    CASE edit = "one player" ->
            [item EXCEPT !.data.players.v = IF Len(@) > 1 THEN << @[1] >> ELSE @]
      [] edit = "no player" -> [item EXCEPT !.data.players.v = << >>]
      [] edit = "position 150" ->
            [item EXCEPT !.data.players.v[1].position = JNumber(150)]
      [] edit = "position -1" ->
            [item EXCEPT !.data.players.v[1].position = JNumber(-1)]
      [] edit = "unknown roller" ->
            [item EXCEPT !.data.other.currentDiceRollerId = UnknownId]
      [] edit = "maxPoints 0" ->
            [item EXCEPT !.data.other.diceConfig.maxPoints = 0]

\* The item under STORAGE_KEY is replaced by an edited one
EditRecord(edit) ==
    /\ stored.isStorageAvailable
    /\ stored.item # NoRecord
    /\ loadGameState(stored).result.kind = "state"
    /\ stored' = [stored EXCEPT !.item = Edited(@, edit)]
    /\ loaded' = NotLoaded
    /\ UNCHANGED <<state, threw, hist, comp, lib>>

InitLoad ==
    /\ state = [createInitialGameState(StorePlayers(MinPlayers), ModelHazards,
                                       DefaultWinningPositions)
                   EXCEPT !.isGameStarted = TRUE]
    /\ threw = FALSE
    /\ run = << >>
    /\ rolled = {}
    /\ AppInit

NextLoad ==
    \/ \E id \in PlayerIds(state), steps \in StepValues :
          MovePlayer(id, steps) /\ loaded' = NotLoaded /\ UNCHANGED <<hist, comp, stored, lib>>
    \/ \E createdAt \in DateInputs : SaveGameState(createdAt, createdAt)
    \/ \E damage \in Damages : Tamper(damage)
    \/ \E edit \in Edits : EditRecord(edit)
    \/ PageLoad
    \/ OnErrorRetry
    \/ OnErrorReset

SpecLoad == InitLoad /\ [][NextLoad]_vars

\* The GameState object x is a game the store can be in: at least 2
\* players, every position an integer of 0..100, the roller one of the
\* players, the dice maximum an integer >= 1
IsGame(x) ==
    /\ Len(x.players.v) >= MinPlayers
    /\ \A i \in 1..Len(x.players.v) :
          /\ x.players.v[i].position.kind = "number"
          /\ x.players.v[i].position.v \in 0..BoardEnd
    /\ \E i \in 1..Len(x.players.v) :
          x.players.v[i].other.key = x.other.currentDiceRollerId
    /\ x.other.diceConfig.maxPoints \in Nat \ {0}

\* C39: every state loadGameState returns has at least 2 players, every
\* position an integer in 0..100, a roller who is one of its players and a
\* dice maximum that is an integer >= 1; a load of a stored record without
\* these raises CorruptedStateError.
C39_LoadedStateIsAGame ==
    /\ [](loaded.kind = "state" => IsGame(loaded.value))
    /\ [][(LoadCall /\ stored.isStorageAvailable /\ stored.item # NoRecord
              /\ stored.item.text = "json"
              /\ ~DeserializeThrows(stored.item.data)
              /\ ~IsGame(deserializeState(stored.item.data)))
             => loaded'.kind = "CorruptedStateError"]_vars

\* The part of C39 that holds: a returned state has a non-empty text as
\* gameId, arrays of players and hazards, boolean flags, valid dates, and
\* players with an id, a name and a number as position
LoadedStateIsWellFormed ==
    loaded.kind = "state" =>
        LET x == loaded.value
        IN  /\ x.gameId.kind = "string" /\ Truthy(x.gameId)
            /\ x.players.kind = "array"
            /\ x.snakesAndLadders.kind = "array"
            /\ x.isGameStarted.kind = "boolean"
            /\ x.isGameFinished.kind = "boolean"
            /\ IsValidDate(x.createdAt)
            /\ IsValidDate(x.lastUpdatedAt)
            /\ \A i \in 1..Len(x.players.v) :
                  /\ Truthy(x.players.v[i].id)
                  /\ Truthy(x.players.v[i].name)
                  /\ x.players.v[i].position.kind = "number"

\* loadGameState has returned, and the store holds, a game of one player on
\* cell 150 whose roller is none of its players and whose dice maximum is 0
C39_NoGameLoaded ==
    /\ loaded.kind = "state"
    /\ state = [StoreState(loaded.value) EXCEPT !.selectedTargetId = Null]
    /\ Len(state.players) = 1
    /\ state.players[1].position = 150
    /\ FindIndexById(state.players, state.currentDiceRollerId) = -1
    /\ state.diceConfig.maxPoints = 0
    /\ ~comp.hasError

====
